---- MODULE Spec2Model ----
(***************************************************************************)
(* ATP: a filesystem-resident packet log (src/tools/atp.py) and the        *)
(* snapshot projection built from it (src/tools/build_snapshot.py).        *)
(*                                                                         *)
(* Text is modelled as a sequence of tokens.  A token is one character of  *)
(* the wire format that the code inspects ("\n", " ", ":", ",", "|", "-",  *)
(* "/", ".", a decimal digit) or a word: a run of other characters that    *)
(* the code never looks into.  Every string operation of the source        *)
(* (split, strip, startswith, join, regex match) is computed on tokens.    *)
(***************************************************************************)
EXTENDS Integers, Sequences, FiniteSets, TLC

VARIABLES
    streams,      \* state/atp/streams: stream id -> (file name -> file text)
    events,       \* stream id -> lines of events.jsonl (absent: no file)
    indexFile,    \* state/atp/index.json
    artifacts,    \* manifest paths that exist below the root
    snapshotFile, \* state/control_room_latest.json
    clock,        \* the wall clock, in seconds
    calls,        \* stream id -> the PacketInfo returned by each completed call
    proc,         \* the writers that run step by step
    hin,          \* the argument handed to a pure function
    hout          \* what the calls returned since the last write

vars == <<streams, events, indexFile, artifacts, snapshotFile, clock, calls, proc, hin, hout>>

-----------------------------------------------------------------------------
(* Bounds of the model.                                                    *)

MaxPackets == 3

\* update_etag applications to one file
MaxApply == 3

\* build_snapshot calls between two writes
MaxBuilds == 2

\* Lines of one events.jsonl
MaxEvents == 2

\* ETAG lines in the header of a packet file of the session
MaxEtagLines == 2

\* Packet files of the session
MaxSessionPackets == 2

\* Characters and percent escapes of a path handed to safe_resolve
MaxPartLen == 4

-----------------------------------------------------------------------------
(* Tokens and the string operations of the source.                         *)

NL == "\n"
CR == "\r"
SP == " "
WS == {NL, CR, SP}
None == <<"\\None">>
Digits == <<"0", "1", "2", "3", "4", "5", "6", "7", "8", "9">>
DigitSet == {Digits[i] : i \in 1..10}

Min(S) == CHOOSE x \in S : \A y \in S : x <= y
Max(S) == CHOOSE x \in S : \A y \in S : x >= y

\* A list comprehension, built once
List(f) == f \o <<>>

\* The first position from i on that holds one of the characters seps (str.find);
\* Len(t) + 1 when there is none
FirstAt(t, seps, i) ==
    LET at == {j \in i..Len(t) : t[j] \in seps}
    IN  IF at = {} THEN Len(t) + 1 ELSE Min(at)

\* str.strip()
Strip(t) ==
    LET idx == {i \in 1..Len(t) : t[i] \notin WS}
    IN  IF idx = {} THEN <<>> ELSE SubSeq(t, Min(idx), Max(idx))

\* The positions that hold one of the characters seps, in order
SepPositions(t, seps) == SelectSeq([i \in 1..Len(t) |-> i], LAMBDA j : t[j] \in seps)

\* re.split / str.split on the characters seps
Split(t, seps) ==
    LET at == SepPositions(t, seps)
    IN  List([k \in 1..(Len(at) + 1) |->
            SubSeq(t, IF k = 1 THEN 1 ELSE at[k - 1] + 1,
                      IF k > Len(at) THEN Len(t) ELSE at[k] - 1)])

\* sep.join(parts[lo..hi]), by halves
RECURSIVE JoinRange(_, _, _, _)
JoinRange(parts, sep, lo, hi) ==
    IF lo > hi THEN <<>>
    ELSE IF lo = hi THEN parts[lo]
    ELSE LET mid == (lo + hi) \div 2
             half == [h \in {1, 2} |->
                         JoinRange(parts, sep, IF h = 1 THEN lo ELSE mid + 1,
                                               IF h = 1 THEN mid ELSE hi)]
         IN  half[1] \o sep \o half[2]

Join(parts, sep) == JoinRange(parts, sep, 1, Len(parts))

StartsWith(t, pre) == Len(t) >= Len(pre) /\ SubSeq(t, 1, Len(pre)) = pre

\* str.lower(), on the words the code compares in lower case
LowerTok(tok) ==
    CASE tok = "NULL" -> "null"
      [] tok = "None" -> "none"
      [] tok = "Manifest" -> "manifest"
      [] OTHER -> tok

Lower(t) == [i \in 1..Len(t) |-> LowerTok(t[i])]

\* f"{n:06d}": at least six decimal digits
RECURSIVE DigitsOf(_)
DigitsOf(n) == IF n < 10 THEN <<Digits[n + 1]>> ELSE Append(DigitsOf(n \div 10), Digits[(n % 10) + 1])

Pad6(n) ==
    LET d == DigitsOf(n)
    IN  IF Len(d) >= 6 THEN d ELSE [i \in 1..(6 - Len(d)) |-> "0"] \o d

DigitVal(tok) == (CHOOSE i \in 1..10 : Digits[i] = tok) - 1

\* int(text) of a run of digits
RECURSIVE IntOf(_)
IntOf(d) == IF d = <<>> THEN 0 ELSE 10 * IntOf(SubSeq(d, 1, Len(d) - 1)) + DigitVal(d[Len(d)])

-----------------------------------------------------------------------------
(* The packet codec: parse_packet_text, render_packet, validate_packet.    *)

ATP_VERSION == <<"ATP/0.1">>
SECTION_HEADERS == {"NOW", "NEXT", "RISKS", "ACCEPT", "ARTIFACTS", "QUESTIONS"}
Approvals == {<<"none">>, <<"requested">>, <<"granted_by_human">>}
FailClasses == {<<"NONE">>, <<"SPEC">>, <<"ENV">>, <<"TEST">>, <<"LOGIC">>, <<"INTEGRATION">>, <<"DATA">>, <<"TOOLING">>}

\* A confidence is a Python number: kind int, float, bool or nan, value in tenths.
NoConfidence == [kind |-> "absent", v |-> 0]

EmptyPacket ==
    [ATP |-> <<>>, ID |-> <<>>, TS |-> <<>>, MODE |-> <<>>, TASK |-> <<>>, STATE_ |-> <<>>,
     PARENT |-> None, ETAG |-> None, TOOLS |-> <<>>, APPROVAL |-> <<>>, FAIL_CLASS |-> <<>>,
     goal |-> <<>>, now |-> <<>>, next |-> <<>>, risks |-> <<>>, accept |-> <<>>,
     artifacts |-> [manifests |-> <<>>], questions |-> <<>>, confidence |-> NoConfidence]

ParseError == [ok |-> FALSE, p |-> EmptyPacket]

\* text.split("\n\n", 1): the place of the first blank line, 0 when there is none
BlankAt(t) ==
    LET at == {i \in 1..(Len(t) - 1) : t[i] = NL /\ t[i + 1] = NL}
    IN  IF at = {} THEN 0 ELSE Min(at)

\* text.replace("\r\n", "\n").replace("\r", "\n"), given the positions that stay
NormalizedAt(t, kept) == [k \in 1..Len(kept) |-> IF t[kept[k]] = CR THEN NL ELSE t[kept[k]]]

normalize_newlines(t) ==
    NormalizedAt(t, SelectSeq([i \in 1..Len(t) |-> i],
                              LAMBDA j : ~(t[j] = CR /\ j < Len(t) /\ t[j + 1] = NL)))

\* The two parts the first blank line at i separates
SplitAt(t, i) ==
    [ok |-> i > 0,
     header |-> IF i > 0 THEN SubSeq(t, 1, i - 1) ELSE <<>>,
     body |-> IF i > 0 THEN SubSeq(t, i + 2, Len(t)) ELSE <<>>]

SplitNormalized(t) == SplitAt(t, BlankAt(t))

split_packet(t) == SplitNormalized(List(normalize_newlines(t)))

normalize_nullable(value) ==
    LET trimmed == Strip(value)
    IN  IF Lower(trimmed) \in {<<"null">>, <<"none">>, <<>>} THEN None ELSE trimmed

NonEmpty(t) == t # <<>>

parse_tools(value) ==
    IF value = <<>> THEN <<>>
    ELSE LET parts == Split(value, {"|", ","})
             stripped == [i \in 1..Len(parts) |-> Strip(parts[i])]
         IN  SelectSeq(stripped, NonEmpty)

\* line.split(":", 1) of a line that holds a colon
KeyOf(line) == Strip(SubSeq(line, 1, FirstAt(line, {":"}, 1) - 1))
ValueOf(line) == Strip(SubSeq(line, FirstAt(line, {":"}, 1) + 1, Len(line)))
HasColon(line) == FirstAt(line, {":"}, 1) <= Len(line)

\* headers.get(key, default) after the loop that fills the dict: the last line wins
HeaderGet(keys, lines, key, default) ==
    LET at == {i \in 2..Len(lines) : keys[i] = <<key>>}
    IN  IF at = {} THEN default ELSE ValueOf(lines[Max(at)])

\* float(text)
ParseFloat(t) ==
    CASE t = <<"0">> -> [ok |-> TRUE, c |-> [kind |-> "float", v |-> 0]]
      [] t = <<"0", ".", "0">> -> [ok |-> TRUE, c |-> [kind |-> "float", v |-> 0]]
      [] t = <<"0", ".", "5">> -> [ok |-> TRUE, c |-> [kind |-> "float", v |-> 5]]
      [] t = <<"1">> -> [ok |-> TRUE, c |-> [kind |-> "float", v |-> 10]]
      [] t = <<"1", ".", "0">> -> [ok |-> TRUE, c |-> [kind |-> "float", v |-> 10]]
      [] t = <<"2">> -> [ok |-> TRUE, c |-> [kind |-> "float", v |-> 20]]
      [] t = <<"2", ".", "0">> -> [ok |-> TRUE, c |-> [kind |-> "float", v |-> 20]]
      [] Lower(t) = <<"nan">> -> [ok |-> TRUE, c |-> [kind |-> "nan", v |-> 0]]
      [] OTHER -> [ok |-> FALSE, c |-> NoConfidence]

\* f"{confidence}"
FormatNumber(c) ==
    CASE c.kind = "bool" -> IF c.v = 10 THEN <<"True">> ELSE <<"False">>
      [] c.kind = "nan" -> <<"nan">>
      [] c.kind = "int" -> DigitsOf(c.v \div 10)
      [] OTHER -> DigitsOf(c.v \div 10) \o <<".", Digits[(c.v % 10) + 1]>>

\* The loop over the body lines (atp.py 209-231), line by line: what a line is,
\* and the section that is active when the loop reaches it
LineKind(line) ==
    IF line = <<>> THEN "blank"
    ELSE IF StartsWith(line, <<"GOAL", ":">>) THEN "goal"
    ELSE IF StartsWith(line, <<"CONFIDENCE", ":">>) THEN "confidence"
    ELSE IF Len(line) = 2 /\ line[2] = ":" /\ line[1] \in SECTION_HEADERS THEN "section"
    ELSE IF line[1] = "-" THEN "item"
    ELSE "other"

\* active_section when line i is read: set by the last section header before it,
\* reset to None ("") by a GOAL or CONFIDENCE line
ActiveAt(lines, kinds, i) ==
    LET marks == {j \in 1..(i - 1) : kinds[j] \in {"goal", "confidence", "section"}}
    IN  IF marks = {} THEN ""
        ELSE IF kinds[Max(marks)] = "section" THEN lines[Max(marks)][1]
        ELSE ""

\* What the loop leaves behind, given every line, its kind and its active section
BodyOf(lines, kinds, active, idx) ==
    LET goals == {i \in 1..Len(lines) : kinds[i] = "goal"}
        confs == {i \in 1..Len(lines) : kinds[i] = "confidence"}
        Text(i) == Strip(SubSeq(lines[i], 3, Len(lines[i])))
        ItemsOf(name) ==
            LET at == SelectSeq(idx, LAMBDA i : kinds[i] = "item" /\ active[i] = name)
            IN  [k \in 1..Len(at) |-> Strip(Tail(lines[at[k]]))]
    IN  [ok |-> /\ \A i \in 1..Len(lines) : kinds[i] # "other"
                /\ \A i \in 1..Len(lines) : kinds[i] = "item" => active[i] # ""
                /\ \A i \in confs : ParseFloat(Text(i)).ok,
         goal |-> IF goals = {} THEN <<>> ELSE Text(Max(goals)),
         confidence |-> IF confs = {} THEN NoConfidence ELSE ParseFloat(Text(Max(confs))).c,
         sections |-> [name \in SECTION_HEADERS |-> ItemsOf(name)]]

BodyOfKinds(lines, kinds) ==
    BodyOf(lines, kinds,
           List([i \in 1..Len(lines) |->
                   IF kinds[i] = "item" THEN ActiveAt(lines, kinds, i) ELSE ""]),
           List([i \in 1..Len(lines) |-> i]))

BodyOfLines(lines) == BodyOfKinds(lines, List([i \in 1..Len(lines) |-> LineKind(lines[i])]))

\* line = raw_line.strip() for every line of the body, then the loop
ParseBody(raw_lines) == BodyOfLines(List([i \in 1..Len(raw_lines) |-> Strip(raw_lines[i])]))

\* One ARTIFACTS entry as stored in artifacts.manifests (atp.py 241-250)
ManifestOf(entry) ==
    IF HasColon(entry) /\ Lower(KeyOf(entry)) \in {<<"manifest">>, <<"manifests">>}
    THEN ValueOf(entry)
    ELSE Strip(entry)

\* The packet dict built from the header dict and the parsed body (atp.py 233-256)
PacketOf(keys, header_lines, body) ==
    [ATP |-> HeaderGet(keys, header_lines, "ATP", ATP_VERSION),
     ID |-> HeaderGet(keys, header_lines, "ID", <<>>),
     TS |-> HeaderGet(keys, header_lines, "TS", <<>>),
     MODE |-> HeaderGet(keys, header_lines, "MODE", <<>>),
     TASK |-> HeaderGet(keys, header_lines, "TASK", <<>>),
     STATE_ |-> HeaderGet(keys, header_lines, "STATE", <<>>),
     PARENT |-> normalize_nullable(HeaderGet(keys, header_lines, "PARENT", <<>>)),
     ETAG |-> normalize_nullable(HeaderGet(keys, header_lines, "ETAG", <<>>)),
     TOOLS |-> parse_tools(HeaderGet(keys, header_lines, "TOOLS", <<>>)),
     APPROVAL |-> HeaderGet(keys, header_lines, "APPROVAL", <<>>),
     FAIL_CLASS |-> HeaderGet(keys, header_lines, "FAIL_CLASS", <<>>),
     goal |-> body.goal,
     now |-> body.sections["NOW"],
     next |-> body.sections["NEXT"],
     risks |-> body.sections["RISKS"],
     accept |-> body.sections["ACCEPT"],
     artifacts |-> [manifests |->
         [i \in 1..Len(body.sections["ARTIFACTS"]) |->
             ManifestOf(body.sections["ARTIFACTS"][i])]],
     questions |-> body.sections["QUESTIONS"],
     confidence |-> body.confidence]

\* The checks on the header lines and the body (atp.py 196-231), then the dict
ParseLines(header_lines, body) ==
    IF header_lines = <<>> THEN ParseError
    ELSE IF Strip(header_lines[1]) # ATP_VERSION THEN ParseError
    ELSE IF \E i \in 2..Len(header_lines) : ~HasColon(header_lines[i]) THEN ParseError
    ELSE IF ~body.ok THEN ParseError
    ELSE [ok |-> TRUE,
          p |-> PacketOf(List([i \in 1..Len(header_lines) |-> KeyOf(header_lines[i])]),
                         header_lines, body)]

ParseSplit(sp) ==
    IF ~sp.ok THEN ParseError
    ELSE ParseLines(SelectSeq(Split(sp.header, {NL}), LAMBDA l : Strip(l) # <<>>),
                    ParseBody(Split(sp.body, {NL})))

parse_packet_text(text) == ParseSplit(split_packet(text))

render_section(title, items) ==
    <<<<title, ":">>>> \o [i \in 1..Len(items) |-> <<"-", SP>> \o items[i]]

Field(key, value) == <<key, ":", SP>> \o value

render_packet(packet) ==
    LET tools == Join(packet.TOOLS, <<",", SP>>)
        parent == IF packet.PARENT = None THEN <<"null">> ELSE packet.PARENT
        etag == IF packet.ETAG = None THEN <<"null">> ELSE packet.ETAG
        artifact_lines == [i \in 1..Len(packet.artifacts.manifests) |->
                              <<"manifest", ":", SP>> \o packet.artifacts.manifests[i]]
        lines == << ATP_VERSION,
                    Field("ID", packet.ID),
                    Field("TS", packet.TS),
                    Field("MODE", packet.MODE),
                    Field("TASK", packet.TASK),
                    Field("STATE", packet.STATE_),
                    Field("PARENT", parent),
                    Field("ETAG", etag),
                    Field("TOOLS", tools),
                    Field("APPROVAL", packet.APPROVAL),
                    Field("FAIL_CLASS", packet.FAIL_CLASS),
                    <<>>,
                    Field("GOAL", packet.goal),
                    <<>> >>
                 \o render_section("NOW", packet.now) \o << <<>> >>
                 \o render_section("NEXT", packet.next) \o << <<>> >>
                 \o render_section("RISKS", packet.risks) \o << <<>> >>
                 \o render_section("ACCEPT", packet.accept) \o << <<>> >>
                 \o render_section("ARTIFACTS", artifact_lines) \o << <<>> >>
                 \o render_section("QUESTIONS", packet.questions)
                 \o (IF packet.confidence.kind # "absent"
                     THEN << <<>>, Field("CONFIDENCE", FormatNumber(packet.confidence)) >>
                     ELSE <<>>)
                 \o << <<>> >>
    IN  Join(lines, <<NL>>)

\* A value that is no str and not None (a number, a dict)
NotAString == <<"\\NotAString">>

\* require_string: a string that is not blank
require_string(value) == value # None /\ value # NotAString /\ Strip(value) # <<>>

\* require_optional_string: a string or None
require_optional_string(value) == value # NotAString

\* require_string_list: a list that holds strings only
require_string_list(value) == \A i \in 1..Len(value) : value[i] # NotAString /\ value[i] # None

validate_packet(packet) ==
    /\ require_string(packet.ATP)
    /\ packet.ATP = ATP_VERSION
    /\ require_string(packet.ID)
    /\ require_string(packet.TS)
    /\ require_string(packet.MODE)
    /\ require_string(packet.TASK)
    /\ require_string(packet.STATE_)
    /\ require_optional_string(packet.PARENT)
    /\ require_optional_string(packet.ETAG)
    /\ require_string_list(packet.TOOLS)
    /\ packet.APPROVAL \in Approvals
    /\ packet.FAIL_CLASS \in FailClasses
    /\ require_string(packet.goal)
    /\ require_string_list(packet.now)
    /\ require_string_list(packet.next)
    /\ require_string_list(packet.risks)
    /\ require_string_list(packet.accept)
    /\ require_string_list(packet.questions)
    /\ require_string_list(packet.artifacts.manifests)
    /\ packet.confidence.kind \in {"absent", "nan"} \/
       (packet.confidence.v >= 0 /\ packet.confidence.v <= 10)

\* Python's == on two packet dicts: a nan is equal to nothing, a number to an equal
\* number of any kind, a missing key only to a missing key
ConfidenceEq(a, b) ==
    IF a.kind = "absent" \/ b.kind = "absent" THEN a.kind = b.kind
    ELSE a.kind # "nan" /\ b.kind # "nan" /\ a.v = b.v

PacketEq(p, q) ==
    /\ [p EXCEPT !.confidence = NoConfidence] = [q EXCEPT !.confidence = NoConfidence]
    /\ ConfidenceEq(p.confidence, q.confidence)

-----------------------------------------------------------------------------
(* Sequencer and stream store: file names, directory scans, the index.     *)

\* An entry of a stream directory that is itself a directory (is_file() is false)
DirEntry == <<"\\Dir">>
is_file(entry) == entry # DirEntry

\* STREAM_RE = ^(?P<seq>\d{6})\..+\.atp$
STREAM_RE(name) ==
    /\ Len(name) >= 10
    /\ \A i \in 1..6 : name[i] \in DigitSet
    /\ name[7] = "."
    /\ name[Len(name) - 1] = "."
    /\ name[Len(name)] = "atp"

SeqOfName(name) == IntOf(SubSeq(name, 1, 6))

\* The order of str: "." sorts before the digits, the digits before the letters
TokRank(tok) ==
    CASE tok = "." -> 0
      [] tok \in DigitSet -> 1 + DigitVal(tok)
      [] tok = "atp" -> 11
      [] tok = "events" -> 12
      [] tok = "jsonl" -> 13
      [] tok = "request" -> 14
      [] tok = "response" -> 15
      [] tok = "review" -> 16
      [] tok = "s1" -> 17
      [] tok = "s2" -> 18
      [] tok = "sample" -> 19
      [] tok = "stream-" -> 20
      [] OTHER -> 21

LexLess(a, b) ==
    LET diff == {i \in 1..Min({Len(a), Len(b)}) : a[i] # b[i]}
    IN  IF diff = {} THEN Len(a) < Len(b)
        ELSE TokRank(a[Min(diff)]) < TokRank(b[Min(diff)])

\* sorted(names)
RECURSIVE SortNames(_)
SortNames(S) ==
    IF S = {} THEN <<>>
    ELSE LET m == CHOOSE x \in S : \A y \in S \ {x} : LexLess(x, y)
         IN  <<m>> \o SortNames(S \ {m})

\* sorted(ints)
RECURSIVE SortInts(_)
SortInts(S) == IF S = {} THEN <<>> ELSE <<Min(S)>> \o SortInts(S \ {Min(S)})

\* The stream's directory as the scans see it: no entry when it does not exist
DirOf(tree, stream) == IF stream \in DOMAIN tree THEN tree[stream] ELSE <<>>

PacketNames(dir) == {n \in DOMAIN dir : is_file(dir[n]) /\ STREAM_RE(n)}

\* Two files give the same number twice in the code's list; only its last element
\* and its emptiness are ever used, which the set keeps.
list_sequences(dir) == SortInts({SeqOfName(n) : n \in PacketNames(dir)})

list_packet_files(dir) == SortNames(PacketNames(dir))

\* next_sequence taking the first element of the sorted list instead of the last
next_sequence_first(dir) ==
    LET seqs == list_sequences(dir)
    IN  IF seqs # <<>> THEN seqs[1] + 1 ELSE 1

next_sequence(dir) ==
    LET seqs == list_sequences(dir)
    IN  IF seqs # <<>> THEN seqs[Len(seqs)] + 1 ELSE 1

EmptyIndex == [atp_version |-> "0.1", streams |-> <<>>]

\* ensure_layout: index.json is created, empty, when it does not exist
ensure_layout(idx) == IF idx.exists THEN idx ELSE [exists |-> TRUE, data |-> EmptyIndex]

load_index(idx) == IF idx.exists THEN idx.data ELSE EmptyIndex

save_index(data) == [exists |-> TRUE, data |-> data]

\* An entry of streams/ that is a plain file (is_dir() is false)
PlainFile == (<<"\\File">> :> <<>>)
is_dir(entry) == entry # PlainFile

\* rebuild_index recording the number of packet files as latest_seq
rebuild_index_count(tree) ==
    [atp_version |-> "0.1",
     streams |-> [s \in {d \in DOMAIN tree : is_dir(tree[d]) /\ list_packet_files(tree[d]) # <<>>} |->
                    [latest_seq |-> Len(list_packet_files(tree[s])),
                     packet_files |-> list_packet_files(tree[s])]]]

rebuild_index(tree) ==
    [atp_version |-> "0.1",
     streams |-> [s \in {d \in DOMAIN tree : is_dir(tree[d]) /\ list_packet_files(tree[d]) # <<>>} |->
                    [latest_seq |-> Max({SeqOfName(n) : n \in PacketNames(tree[s])}),
                     packet_files |-> list_packet_files(tree[s])]]]

\* strftime("%Y%m%d%H%M%S") of the clock
generate_stream_id(clk) == <<"stream-">> \o DigitsOf(clk)

\* isoformat(timespec="seconds") of the clock in the local time zone
LocalTz == "+00:00"
isoformat(clk) == <<"t">> \o DigitsOf(clk) \o <<LocalTz>>

\* get_git_state: outside a work tree
GitStates == {<<"git=unknown", SP, "dirty=1">>}

packet_tools(mode) ==
    CASE mode = <<"PLAN">> -> << <<"read">>, <<"diff">> >>
      [] mode = <<"EXEC">> -> << <<"edit">>, <<"exec">> >>
      [] mode = <<"REVIEW">> -> << <<"read">> >>
      [] OTHER -> << <<"read">> >>

packet_approval(mode) == IF mode = <<"EXEC">> THEN <<"requested">> ELSE <<"none">>

\* packet_suffix that gives every mode the name of a request
packet_suffix_request(mode) == "request"

packet_suffix(mode) ==
    CASE mode = <<"PLAN">> -> "request"
      [] mode = <<"EXEC">> -> "response"
      [] mode = <<"REVIEW">> -> "review"
      [] OTHER -> "request"

PacketId(stream_id, seq) == stream_id \o <<"/">> \o Pad6(seq)

PacketFileName(seq, suffix) == Pad6(seq) \o <<".", suffix, ".", "atp">>

PlaceholderManifest == <<"state/artifacts/<hash>/manifest.json">>

build_packet(mode, task, seq, stream_id, ts, state) ==
    [ATP |-> ATP_VERSION,
     ID |-> PacketId(stream_id, seq),
     TS |-> ts,
     MODE |-> mode,
     TASK |-> task,
     STATE_ |-> state,
     PARENT |-> IF seq = 1 THEN None ELSE PacketId(stream_id, seq - 1),
     ETAG |-> None,
     TOOLS |-> packet_tools(mode),
     APPROVAL |-> packet_approval(mode),
     FAIL_CLASS |-> <<"NONE">>,
     goal |-> <<"<fill_in>">>,
     now |-> << <<"<fact", SP, "1>">> >>,
     next |-> << <<"<action", SP, "1>">> >>,
     risks |-> << <<"<risk", SP, "1>">> >>,
     accept |-> << <<"<acceptance", SP, "1>">> >>,
     artifacts |-> [manifests |-> <<PlaceholderManifest>>],
     questions |-> << <<"none">> >>,
     confidence |-> NoConfidence]

\* validate_packet on what parse_packet_text returned
Validated(r) == IF r.ok /\ validate_packet(r.p) THEN r ELSE ParseError

\* parse_packet_file: parse, then validate
parse_packet_file(text) == Validated(parse_packet_text(text))

\* latest_packet_file: the last name in sorted order
latest_packet_file(dir) == list_packet_files(dir)[Len(list_packet_files(dir))]

\* The packet approve_stream builds (atp.py 521-540)
approval_packet(stream_id, rationale, seq, latest_packet, ts, state) ==
    [ATP |-> ATP_VERSION,
     ID |-> PacketId(stream_id, seq),
     TS |-> ts,
     MODE |-> <<"REVIEW">>,
     TASK |-> latest_packet.TASK,
     STATE_ |-> state,
     PARENT |-> latest_packet.ID,
     ETAG |-> None,
     TOOLS |-> << <<"read">> >>,
     APPROVAL |-> <<"granted_by_human">>,
     FAIL_CLASS |-> <<"NONE">>,
     goal |-> <<"Human", SP, "approval", SP, "recorded.">>,
     now |-> << <<"Approved", SP>> \o latest_packet.ID >>,
     next |-> << <<"Continue", SP, "execution.">> >>,
     risks |-> << <<"Human", SP, "approval", SP, "could", SP, "mask", SP, "unresolved", SP, "evidence.">> >>,
     accept |-> IF rationale # <<>>
                THEN << <<"Rationale", ":", SP>> \o rationale >>
                ELSE << <<"Rationale", ":", SP, "none">> >>,
     artifacts |-> [manifests |-> latest_packet.artifacts.manifests],
     questions |-> << <<"none">> >>,
     confidence |-> NoConfidence]

\* event_payload naming the sequence before the one it is given
event_payload_stale(stream_id, seq, event_type, summary, extra, packet_id, ts) ==
    extra @@
    (IF packet_id # <<>> THEN "packet_id" :> packet_id ELSE <<>>) @@
    [ts |-> ts, id |-> PacketId(stream_id, seq - 1), type |-> event_type, summary |-> summary]

\* The payload append_event builds (atp.py 471-479); packet_id = <<>> is None
event_payload(stream_id, seq, event_type, summary, extra, packet_id, ts) ==
    extra @@
    (IF packet_id # <<>> THEN "packet_id" :> packet_id ELSE <<>>) @@
    [ts |-> ts, id |-> PacketId(stream_id, seq), type |-> event_type, summary |-> summary]

validate_event(payload) ==
    /\ \A k \in {"ts", "id", "type", "summary"} : k \in DOMAIN payload /\ require_string(payload[k])

EventsOf(ev, stream) == IF stream \in DOMAIN ev THEN ev[stream] ELSE <<>>

\* latest_sequence_for_stream: -1 stands for the ValueError of a stream without packets
latest_sequence_for_stream(dir) ==
    IF list_sequences(dir) = <<>> THEN -1 ELSE list_sequences(dir)[Len(list_sequences(dir))]

\* The event log after handle.write of the payload, when validate_event accepts it
AppendPayload(stream_id, payload, ev) ==
    IF validate_event(payload)
    THEN [ok |-> TRUE, events |-> (stream_id :> Append(EventsOf(ev, stream_id), payload)) @@ ev]
    ELSE [ok |-> FALSE, events |-> ev]

\* append_event writing a line whatever latest_sequence_for_stream found
append_event_unchecked(stream_id, event_type, summary, extra, packet_id, ts, tree, ev) ==
    AppendPayload(stream_id,
                  event_payload(stream_id, Max({0, latest_sequence_for_stream(DirOf(tree, stream_id))}),
                                event_type, summary, extra, packet_id, ts), ev)

\* append_event(stream_id, event_type, summary, extra, root, packet_id, ts):
\* the event logs it leaves; not ok when it raises
append_event(stream_id, event_type, summary, extra, packet_id, ts, tree, ev) ==
    IF latest_sequence_for_stream(DirOf(tree, stream_id)) = -1 THEN [ok |-> FALSE, events |-> ev]
    ELSE AppendPayload(stream_id,
                       event_payload(stream_id, latest_sequence_for_stream(DirOf(tree, stream_id)),
                                     event_type, summary, extra, packet_id, ts), ev)

WriteFile(tree, stream, name, text) == (stream :> ((name :> text) @@ DirOf(tree, stream))) @@ tree

mkdir(tree, stream) == (stream :> DirOf(tree, stream)) @@ tree

\* The PacketInfo a call returns, with the operation that returned it
PacketInfo(op, stream, seq, name) == [op |-> op, stream_id |-> stream, seq |-> seq, path |-> name]

CallsOf(stream) == IF stream \in DOMAIN calls THEN calls[stream] ELSE <<>>

TotalPackets == LET RECURSIVE Sum(_)
                    Sum(S) == IF S = {} THEN 0
                              ELSE LET s == CHOOSE x \in S : TRUE
                                   IN  Cardinality(DOMAIN streams[s]) + Sum(S \ {s})
                IN  Sum(DOMAIN streams)

-----------------------------------------------------------------------------
(* The operations, each one whole call (one writer at a time).             *)

Modes == {<<"PLAN">>, <<"EXEC">>, <<"REVIEW">>}

\* Free text given as --task: one line, or text that holds a line break
InjectedTask == <<"x", NL, "ID", ":", SP, "evil", "/", "0", "0", "0", "0", "0", "9">>

\* The (mode, task) pairs the writers are called with
WriteArgs == {<<m, <<"t1">>>> : m \in Modes} \cup {<<<<"PLAN">>, InjectedTask>>}

\* --stream: a caller-supplied id, or none (<<>>), which generates one
StreamArgs == {<<"s1">>, <<>>}

Rationales == {<<>>, <<"ok">>}

NoIndex == [exists |-> FALSE, data |-> EmptyIndex]
NoSnapshot == [exists |-> FALSE]

Idle ==
    /\ proc = <<>>
    /\ hin = <<>>
    /\ hout = <<>>

Init ==
    /\ streams = <<>>
    /\ events = <<>>
    /\ indexFile = NoIndex
    /\ artifacts = {}
    /\ snapshotFile = NoSnapshot
    /\ clock = 1
    /\ calls = <<>>
    /\ Idle

\* write_packet(mode, task, stream_id, root)
write_packet(mode, task, stream_id, state) ==
    LET stream == IF stream_id # <<>> THEN stream_id ELSE generate_stream_id(clock)
        made == mkdir(streams, stream)
        seq == next_sequence(made[stream])
        packet == build_packet(mode, task, seq, stream, isoformat(clock), state)
        name == PacketFileName(seq, packet_suffix(mode))
        written == WriteFile(made, stream, name, render_packet(packet))
    IN  /\ IF validate_packet(packet)
           THEN /\ streams' = written
                /\ indexFile' = save_index(rebuild_index(written))
                /\ calls' = (stream :> Append(CallsOf(stream), PacketInfo("write_packet", stream, seq, name))) @@ calls
           ELSE /\ streams' = made
                /\ indexFile' = ensure_layout(indexFile)
                /\ UNCHANGED calls
        /\ hout' = <<>>
        /\ UNCHANGED <<events, artifacts, snapshotFile, clock, proc, hin>>

\* write_packet while the tree holds fewer than MaxPackets files
WritePacket(mode, task, stream_id, state) ==
    /\ TotalPackets < MaxPackets
    /\ write_packet(mode, task, stream_id, state)

\* What approve_stream leaves when it raises before it wrote anything
ApproveFailed(tree, ev) == [ok |-> FALSE, streams |-> tree, events |-> ev, seq |-> 0, name |-> <<>>]

\* What approve_stream leaves after append_event: when that raises, the packet
\* stays written
ApproveAppended(seq, name, written, appended) ==
    [ok |-> appended.ok, streams |-> written, events |-> appended.events, seq |-> seq, name |-> name]

\* approve_stream from the packet file it wrote on (atp.py 546-553)
ApproveWritten(stream_id, seq, name, packet_id, ts, written, ev) ==
    ApproveAppended(seq, name, written,
                    append_event(stream_id, <<"APPROVAL_GRANTED">>,
                                 <<"Human", SP, "approval", SP, "granted">>, <<>>, packet_id, ts,
                                 written, ev))

\* approve_stream from the packet it built on (atp.py 541-553)
ApprovePacket(stream_id, seq, packet, tree, ev, ts) ==
    IF ~validate_packet(packet) THEN ApproveFailed(tree, ev)
    ELSE ApproveWritten(stream_id, seq, PacketFileName(seq, "review"), packet.ID, ts,
                        WriteFile(tree, stream_id, PacketFileName(seq, "review"), render_packet(packet)),
                        ev)

\* approve_stream refusing a stream whose latest packet is granted already
ApproveLatest_once(stream_id, rationale, state, ts, tree, ev, latest, seq) ==
    IF ~latest.ok \/ latest.p.APPROVAL = <<"granted_by_human">> THEN ApproveFailed(tree, ev)
    ELSE ApprovePacket(stream_id, seq,
                       approval_packet(stream_id, rationale, seq, latest.p, ts, state), tree, ev, ts)

\* approve_stream from the latest packet it parsed on (atp.py 518-541)
ApproveLatest(stream_id, rationale, state, ts, tree, ev, latest, seq) ==
    IF ~latest.ok THEN ApproveFailed(tree, ev)
    ELSE ApprovePacket(stream_id, seq,
                       approval_packet(stream_id, rationale, seq, latest.p, ts, state), tree, ev, ts)

\* approve_stream(stream_id, rationale, root): what it leaves on disk, and the
\* seq and file name of the PacketInfo it returns; not ok when it raises
approve_stream(stream_id, rationale, state, ts, tree, ev) ==
    IF stream_id \notin DOMAIN tree THEN ApproveFailed(tree, ev)
    ELSE IF list_packet_files(tree[stream_id]) = <<>> THEN ApproveFailed(tree, ev)
    ELSE ApproveLatest(stream_id, rationale, state, ts, tree, ev,
                       parse_packet_file(tree[stream_id][latest_packet_file(tree[stream_id])]),
                       next_sequence(tree[stream_id]))

\* The files, the index and the returned PacketInfo after approve_stream
ApproveDone(stream_id, r) ==
    /\ streams' = r.streams
    /\ events' = r.events
    /\ indexFile' = IF r.ok THEN save_index(rebuild_index(r.streams)) ELSE ensure_layout(indexFile)
    /\ calls' = IF r.ok
                THEN (stream_id :> Append(CallsOf(stream_id),
                                          PacketInfo("approve_stream", stream_id, r.seq, r.name))) @@ calls
                ELSE calls

\* approve_stream(stream_id, rationale, root)
ApproveStream(stream_id, rationale, state) ==
    /\ TotalPackets < MaxPackets
    /\ ApproveDone(stream_id, approve_stream(stream_id, rationale, state, isoformat(clock), streams, events))
    /\ hout' = <<>>
    /\ UNCHANGED <<artifacts, snapshotFile, clock, proc, hin>>

Next ==
    \/ \E arg \in WriteArgs, stream_id \in StreamArgs, state \in GitStates :
           WritePacket(arg[1], arg[2], stream_id, state)
    \/ \E stream_id \in {<<"s1">>, generate_stream_id(1)}, rationale \in Rationales, state \in GitStates :
           ApproveStream(stream_id, rationale, state)

Spec == Init /\ [][Next]_vars

-----------------------------------------------------------------------------
(* update_etag, applied again and again to one packet file.                *)

\* hashlib.sha256(payload).hexdigest(): one word that the payload determines
sha256(payload) == <<"sha256_">> \o DigitsOf(Len(payload))

\* ETAG_RE = ^ETAG:.*$ (MULTILINE): a whole line that starts with ETAG:
ETAG_RE(line) == StartsWith(line, <<"ETAG", ":">>)

\* ETAG_RE.sub(f"ETAG: {digest}", header)
ETAG_RE_sub(digest, header_lines) ==
    Join([i \in 1..Len(header_lines) |->
             IF ETAG_RE(header_lines[i]) THEN <<"ETAG", ":", SP>> \o digest
             ELSE header_lines[i]], <<NL>>)

\* The header update_etag writes back (atp.py 435-437)
updated_header(header, digest, substituted) ==
    IF substituted = header THEN header \o <<NL, "ETAG", ":", SP>> \o digest ELSE substituted

\* update_etag: the digest it returns and the content it writes; not ok when
\* split_packet raises
update_etag(content) ==
    LET sp == split_packet(content)
        digest == sha256(sp.body)
    IN  [ok |-> sp.ok,
         digest |-> digest,
         content |-> updated_header(sp.header, digest,
                                    ETAG_RE_sub(digest, Split(sp.header, {NL})))
                     \o <<NL, NL>> \o sp.body]

\* The lines of the header of a packet file that start with ETAG:
EtagLines(content) ==
    LET header_lines == Split(split_packet(content).header, {NL})
    IN  {i \in 1..Len(header_lines) : ETAG_RE(header_lines[i])}

\* The packet file of test_etag_stability (test_atp.py 27-41)
EtagTestPacket ==
    <<"ATP/0.1", NL,
      "ID", ":", SP, "stream-", "1", "/", "0", "0", "0", "0", "0", "1", NL,
      "TS", ":", SP, "2026-01-19T12", ":", "34", ":", "56+09", ":", "00", NL,
      "MODE", ":", SP, "PLAN", NL,
      "TASK", ":", SP, "test", NL,
      "STATE", ":", SP, "git=abc", SP, "dirty=0", NL,
      "PARENT", ":", SP, "none", NL,
      "ETAG", ":", SP, "<fill_after>", NL,
      "TOOLS", ":", SP, "read", "|", "diff", NL,
      "APPROVAL", ":", SP, "none", NL,
      NL,
      "GOAL", ":", SP, "stable", SP, "hash", NL>>

\* A file without the blank line that split_packet needs
NoBlankLine == <<"ATP/0.1", NL, "ID", ":", SP, "x", NL>>

\* Packet files update_etag is run on: what write_packet wrote, and hand-written ones
EtagFiles ==
    {render_packet(build_packet(arg[1], arg[2], seq, stream_id, isoformat(clk), state)) :
        arg \in WriteArgs, seq \in 1..MaxPackets, clk \in {1, 2},
        stream_id \in {<<"s1">>, generate_stream_id(1)}, state \in GitStates}
    \cup {EtagTestPacket, NoBlankLine}

EtagStream == <<"s1">>
EtagPath == <<"packet", ".", "atp">>

InitEtag ==
    /\ \E f \in EtagFiles :
          /\ streams = WriteFile(<<>>, EtagStream, EtagPath, f)
          /\ hin = f
    /\ events = <<>>
    /\ indexFile = NoIndex
    /\ artifacts = {}
    /\ snapshotFile = NoSnapshot
    /\ clock = 1
    /\ calls = <<>>
    /\ proc = <<>>
    /\ hout = <<>>

\* update_etag(packet_path): hout keeps what each application returned and wrote
UpdateEtag(stream, name) ==
    LET r == update_etag(streams[stream][name])
    IN  /\ Len(hout) < MaxApply
        /\ r.ok
        /\ streams' = WriteFile(streams, stream, name, r.content)
        /\ hout' = Append(hout, [digest |-> r.digest, content |-> r.content])
        /\ UNCHANGED <<events, indexFile, artifacts, snapshotFile, clock, calls, proc, hin>>

NextEtag == \E stream \in DOMAIN streams : \E name \in DOMAIN streams[stream] : UpdateEtag(stream, name)

SpecEtag == InitEtag /\ [][NextEtag]_vars

-----------------------------------------------------------------------------
(* The snapshot projection: build_snapshot.py.                             *)

\* A datetime: seconds and UTC offset; not ok is Python's None
NoTime == [ok |-> FALSE, sec |-> 0, tz |-> ""]

\* An AttributeError left uncaught: the call of build_snapshot ends with it
Raised == [ok |-> FALSE, sec |-> 0, tz |-> "\\raised"]

\* parse_timestamp: a trailing Z reads as +00:00; no value for empty text and
\* for text fromisoformat rejects.  A value that is true and not a string has
\* no endswith: an AttributeError, which the except ValueError lets through.
parse_timestamp(value) ==
    IF value = None \/ value = <<>> THEN NoTime
    ELSE IF value = NotAString THEN Raised
    ELSE IF /\ Len(value) >= 3
            /\ value[1] = "t"
            /\ value[Len(value)] \in {"Z", "+00:00"}
            /\ \A i \in 2..(Len(value) - 1) : value[i] \in DigitSet
         THEN [ok |-> TRUE, sec |-> IntOf(SubSeq(value, 2, Len(value) - 1)), tz |-> "+00:00"]
         ELSE NoTime

\* datetime.isoformat()
dt_isoformat(dt) == <<"t">> \o DigitsOf(dt.sec) \o <<dt.tz>>

\* str.replace("+00:00", "Z")
ReplaceUtc(t) == [i \in 1..Len(t) |-> IF t[i] = "+00:00" THEN "Z" ELSE t[i]]

\* dict.get(key) on an event payload
PayloadGet(payload, key) == IF key \in DOMAIN payload THEN payload[key] ELSE None

\* The lines of events.jsonl that are not what json.dumps of a dict wrote: a
\* line of white space, text json.loads rejects (the head of a line whose
\* write was cut short), and JSON text of a value that is not an object
BlankLine == [blank |-> <<SP>>]
TornLine == [invalid |-> <<"{", "\"", "ts", "\"", ":", "\"", "t">>]
ValueLine == [value |-> <<"[", "]">>]

\* [line for line in ...splitlines() if line.strip()]
NonBlankLines(lines) == SelectSeq(lines, LAMBDA line : line # BlankLine)

\* json.loads(lines[-1]) and payload.get("ts"): a JSONDecodeError is caught;
\* a list, number, string or null has no get
TimestampOfLine(line) ==
    IF line = TornLine THEN NoTime
    ELSE IF line = ValueLine THEN Raised
    ELSE parse_timestamp(PayloadGet(line, "ts"))

\* latest_event_timestamp: the ts of the last non-blank line of events.jsonl.
\* A line is the JSON object of string values that append_event dumped, kept
\* as the dict, or one of the lines above.
latest_event_timestamp(ev, stream_id) ==
    IF stream_id \notin DOMAIN ev THEN NoTime
    ELSE IF NonBlankLines(ev[stream_id]) = <<>> THEN NoTime
    ELSE TimestampOfLine(NonBlankLines(ev[stream_id])[Len(NonBlankLines(ev[stream_id]))])

\* derive_status never finding a manifest missing
PathExists_always(path, arts) == TRUE

\* (root / manifest).resolve().exists(): the empty path is the root itself
PathExists(path, arts) == path = <<>> \/ path \in arts

\* derive_status asking for the approval before it looks at the manifests
derive_status_approval_first(packet, arts) ==
    IF packet.APPROVAL = <<"requested">> THEN "pending"
    ELSE IF \E i \in 1..Len(packet.artifacts.manifests) :
                ~PathExists(packet.artifacts.manifests[i], arts) THEN "blocked"
    ELSE IF packet.FAIL_CLASS # <<>> /\ packet.FAIL_CLASS # <<"NONE">> THEN "blocked"
    ELSE "running"

derive_status(packet, arts) ==
    IF \E i \in 1..Len(packet.artifacts.manifests) :
           ~PathExists(packet.artifacts.manifests[i], arts) THEN "blocked"
    ELSE IF packet.FAIL_CLASS # <<>> /\ packet.FAIL_CLASS # <<"NONE">> THEN "blocked"
    ELSE IF packet.APPROVAL = <<"requested">> THEN "pending"
    ELSE "running"

\* atp.parse_packet_file(stream_path / filename): raises when there is no such file
ReadPacket(dir, name) ==
    IF name \in DOMAIN dir /\ is_file(dir[name]) THEN parse_packet_file(dir[name]) ELSE ParseError

\* parent_map.get(packet.get("PARENT") or "", []): the IDs, in file order, of
\* the packets whose PARENT is the latest packet's PARENT
ForkChildren(parsed, parent) ==
    IF parent = None THEN <<>>
    ELSE LET same == SelectSeq(parsed, LAMBDA r : r.p.PARENT = parent)
         IN  [i \in 1..Len(same) |-> same[i].p.ID]

\* max([ts for ts in [event_ts, packet_ts] if ts], default=None)
Newest(event_ts, packet_ts) ==
    IF event_ts.ok /\ packet_ts.ok
    THEN (IF packet_ts.sec > event_ts.sec THEN packet_ts ELSE event_ts)
    ELSE IF event_ts.ok THEN event_ts
    ELSE packet_ts

\* One pass of the loop over the streams (build_snapshot.py 54-91), given the
\* parsed packets of the stream and the timestamp of its last event
SummaryOf(stream_id, entry, parsed, event_ts, arts) ==
    [ok |-> event_ts # Raised /\ \A i \in 1..Len(parsed) : parsed[i].ok,
     newest |-> Newest(event_ts, parse_timestamp(parsed[Len(parsed)].p.TS)),
     summary |->
        [id |-> stream_id,
         latest_seq |-> entry.latest_seq,
         last_event_ts |-> IF event_ts.ok THEN dt_isoformat(event_ts) ELSE None,
         status |-> derive_status(parsed[Len(parsed)].p, arts),
         approval_state |-> parsed[Len(parsed)].p.APPROVAL,
         latest_packet_id |-> parsed[Len(parsed)].p.ID,
         fail_class |-> parsed[Len(parsed)].p.FAIL_CLASS,
         packet_files |-> entry.packet_files,
         has_fork |-> Len(ForkChildren(parsed, parsed[Len(parsed)].p.PARENT)) > 1,
         fork_children |-> ForkChildren(parsed, parsed[Len(parsed)].p.PARENT)]]

StreamView(stream_id, entry, dir, ev, arts) ==
    SummaryOf(stream_id, entry,
              List([i \in 1..Len(entry.packet_files) |-> ReadPacket(dir, entry.packet_files[i])]),
              latest_event_timestamp(ev, stream_id), arts)

SnapshotError == [ok |-> FALSE, snapshot |-> <<>>]

\* build_snapshot counting every stream that is not running as an alert
SnapshotOf_not_running(views) ==
    LET times == {views[k].newest.sec : k \in {j \in 1..Len(views) : views[j].newest.ok}}
        as_of == [ok |-> TRUE, sec |-> IF times = {} THEN 0 ELSE Max(times), tz |-> "+00:00"]
        blocked_count == Cardinality({k \in 1..Len(views) : views[k].summary.status # "running"})
    IN  IF \E k \in 1..Len(views) : ~views[k].ok THEN SnapshotError
        ELSE [ok |-> TRUE,
              snapshot |->
                 [schema_version |-> "control-room-snapshot-v0",
                  as_of |-> ReplaceUtc(dt_isoformat(as_of)),
                  health |-> [status |-> IF blocked_count > 0 THEN "Warning" ELSE "Nominal",
                              data_freshness_seconds |-> 0,
                              active_alerts_count |-> blocked_count],
                  streams |-> [k \in 1..Len(views) |-> views[k].summary],
                  projects |-> <<>>,
                  alerts |-> <<>>]]

\* The dict build_snapshot returns (build_snapshot.py 93-110)
SnapshotOf(views) ==
    LET times == {views[k].newest.sec : k \in {j \in 1..Len(views) : views[j].newest.ok}}
        as_of == [ok |-> TRUE, sec |-> IF times = {} THEN 0 ELSE Max(times), tz |-> "+00:00"]
        blocked_count == Cardinality({k \in 1..Len(views) : views[k].summary.status = "blocked"})
    IN  IF \E k \in 1..Len(views) : ~views[k].ok THEN SnapshotError
        ELSE [ok |-> TRUE,
              snapshot |->
                 [schema_version |-> "control-room-snapshot-v0",
                  as_of |-> ReplaceUtc(dt_isoformat(as_of)),
                  health |-> [status |-> IF blocked_count > 0 THEN "Warning" ELSE "Nominal",
                              data_freshness_seconds |-> 0,
                              active_alerts_count |-> blocked_count],
                  streams |-> [k \in 1..Len(views) |-> views[k].summary],
                  projects |-> <<>>,
                  alerts |-> <<>>]]

\* The loop over sorted(index["streams"]) that skips entries without packet files
SnapshotOfIds(index_streams, ids, tree, ev, arts) ==
    SnapshotOf(List([k \in 1..Len(ids) |->
                        StreamView(ids[k], index_streams[ids[k]], DirOf(tree, ids[k]), ev, arts)]))

\* build_snapshot(root): not ok when a packet file fails to read, parse or validate
build_snapshot(idx, tree, ev, arts) ==
    SnapshotOfIds(load_index(idx).streams,
                  SortNames({s \in DOMAIN load_index(idx).streams :
                                load_index(idx).streams[s].packet_files # <<>>}),
                  tree, ev, arts)

\* json.dumps / json.loads of a string or None
json_string(value) == <<"\"">> \o value \o <<"\"">>
json_dumps_value(value) == IF value = None THEN <<"null">> ELSE json_string(value)
json_loads_value(text) == IF text = <<"null">> THEN None ELSE SubSeq(text, 2, Len(text) - 1)

\* json.dumps(snapshot): the text values quoted, None written as null
json_dumps(snapshot) ==
    [snapshot EXCEPT
        !.as_of = json_dumps_value(@),
        !.streams = [k \in DOMAIN @ |->
            [@[k] EXCEPT !.id = json_dumps_value(@),
                         !.last_event_ts = json_dumps_value(@),
                         !.approval_state = json_dumps_value(@),
                         !.latest_packet_id = json_dumps_value(@),
                         !.fail_class = json_dumps_value(@),
                         !.packet_files = [i \in DOMAIN @ |-> json_dumps_value(@[i])],
                         !.fork_children = [i \in DOMAIN @ |-> json_dumps_value(@[i])]]]]

json_loads(text) ==
    [text EXCEPT
        !.as_of = json_loads_value(@),
        !.streams = [k \in DOMAIN @ |->
            [@[k] EXCEPT !.id = json_loads_value(@),
                         !.last_event_ts = json_loads_value(@),
                         !.approval_state = json_loads_value(@),
                         !.latest_packet_id = json_loads_value(@),
                         !.fail_class = json_loads_value(@),
                         !.packet_files = [i \in DOMAIN @ |-> json_loads_value(@[i])],
                         !.fork_children = [i \in DOMAIN @ |-> json_loads_value(@[i])]]]]

\* snapshot_hash: the digest of the compact JSON text, here of its as_of and ids
snapshot_hash(snapshot) ==
    sha256(Join(<<snapshot.as_of>> \o [k \in 1..Len(snapshot.streams) |-> snapshot.streams[k].id],
                <<",">>))

\* append_snapshot_events opening events.jsonl to write, not to append
append_snapshot_events_rewrite(tree, ev, snapshot, digest) ==
    [s \in {snapshot.streams[k].id : k \in 1..Len(snapshot.streams)} |->
        LET summary == snapshot.streams[CHOOSE k \in 1..Len(snapshot.streams) : snapshot.streams[k].id = s]
            seqs == list_sequences(DirOf(tree, s))
        IN  <<event_payload(s, seqs[Len(seqs)], <<"SNAPSHOT_BUILT">>,
                            <<"Snapshot", SP, "built", SP, "for", SP>> \o s,
                            [snapshot_hash |-> digest],
                            IF summary.latest_packet_id = None THEN <<>> ELSE summary.latest_packet_id,
                            snapshot.as_of)>>]
    @@ ev

\* append_snapshot_events passing no ts_override: append_event stamps the clock
append_snapshot_events_now(tree, ev, snapshot, digest) ==
    [s \in {snapshot.streams[k].id : k \in 1..Len(snapshot.streams)} |->
        LET summary == snapshot.streams[CHOOSE k \in 1..Len(snapshot.streams) : snapshot.streams[k].id = s]
            seqs == list_sequences(DirOf(tree, s))
        IN  Append(EventsOf(ev, s),
                   event_payload(s, seqs[Len(seqs)], <<"SNAPSHOT_BUILT">>,
                                 <<"Snapshot", SP, "built", SP, "for", SP>> \o s,
                                 [snapshot_hash |-> digest],
                                 IF summary.latest_packet_id = None THEN <<>> ELSE summary.latest_packet_id,
                                 isoformat(clock)))]
    @@ ev

\* append_snapshot_events: one SNAPSHOT_BUILT line per stream of the snapshot
append_snapshot_events(tree, ev, snapshot, digest) ==
    [s \in {snapshot.streams[k].id : k \in 1..Len(snapshot.streams)} |->
        LET summary == snapshot.streams[CHOOSE k \in 1..Len(snapshot.streams) : snapshot.streams[k].id = s]
            seqs == list_sequences(DirOf(tree, s))
        IN  Append(EventsOf(ev, s),
                   event_payload(s, seqs[Len(seqs)], <<"SNAPSHOT_BUILT">>,
                                 <<"Snapshot", SP, "built", SP, "for", SP>> \o s,
                                 [snapshot_hash |-> digest],
                                 IF summary.latest_packet_id = None THEN <<>> ELSE summary.latest_packet_id,
                                 snapshot.as_of))]
    @@ ev

\* What write_snapshot leaves, given the snapshot it built
SnapshotWritten(tree, ev, built) ==
    IF ~built.ok THEN [ok |-> FALSE, snapshot |-> <<>>, text |-> <<>>, events |-> ev]
    ELSE [ok |-> TRUE,
          snapshot |-> built.snapshot,
          text |-> json_dumps(built.snapshot),
          events |-> append_snapshot_events(tree, ev, built.snapshot, snapshot_hash(built.snapshot))]

\* write_snapshot building the snapshot it writes after it appended the events
write_snapshot_after_events(idx, tree, ev, arts) ==
    [SnapshotWritten(tree, ev, build_snapshot(idx, tree, ev, arts)) EXCEPT
        !.text = json_dumps(build_snapshot(idx, tree,
                     SnapshotWritten(tree, ev, build_snapshot(idx, tree, ev, arts)).events,
                     arts).snapshot)]

\* write_snapshot(root, output_path)
write_snapshot(idx, tree, ev, arts) == SnapshotWritten(tree, ev, build_snapshot(idx, tree, ev, arts))

\* The wall clock moves on
MaxClock == 2

Tick ==
    /\ clock < MaxClock
    /\ clock' = clock + 1
    /\ UNCHANGED <<streams, events, indexFile, artifacts, snapshotFile, calls, proc, hin, hout>>

\* build_snapshot(root): reads, and returns the snapshot
RecordBuilt(built) ==
    /\ built.ok
    /\ hout' = Append(hout, built.snapshot)

BuildSnapshot ==
    /\ Len(hout) < MaxBuilds
    /\ RecordBuilt(build_snapshot(indexFile, streams, events, artifacts))
    /\ UNCHANGED <<streams, events, indexFile, artifacts, snapshotFile, clock, calls, proc, hin>>

\* write_snapshot(root, output_path): the file, then the events
StoreWritten(w) ==
    /\ w.ok
    /\ snapshotFile' = [exists |-> TRUE, text |-> w.text]
    /\ events' = w.events
    /\ indexFile' = IF w.snapshot.streams = <<>> THEN indexFile ELSE ensure_layout(indexFile)

WriteSnapshot ==
    /\ \A s \in DOMAIN events : Len(events[s]) < MaxEvents
    /\ StoreWritten(write_snapshot(indexFile, streams, events, artifacts))
    /\ hout' = <<>>
    /\ UNCHANGED <<streams, artifacts, clock, calls, proc, hin>>

\* The commands of a session that writes packets and builds snapshots
SnapshotWriteArgs == {<<<<"PLAN">>, <<"t1">>>>, <<<<"EXEC">>, <<"t1">>>>}

NextSnapshot ==
    \/ \E arg \in SnapshotWriteArgs, stream_id \in StreamArgs, state \in GitStates :
           WritePacket(arg[1], arg[2], stream_id, state)
    \/ \E rationale \in {<<>>}, state \in GitStates : ApproveStream(<<"s1">>, rationale, state)
    \/ Tick
    \/ BuildSnapshot
    \/ WriteSnapshot

SpecSnapshot == Init /\ [][NextSnapshot]_vars

-----------------------------------------------------------------------------
(* build_snapshot over one hand-written stream, as in                      *)
(* test_snapshot_builder_deterministic.                                    *)

ManifestA == <<"state/artifacts/a/manifest.json">>
ManifestB == <<"state/artifacts/b/manifest.json">>
ManifestLists == {<<>>, <<ManifestA>>, <<ManifestB>>, <<ManifestA, ManifestB>>}

SampleStream == <<"sample">>

\* The packet of the test, with the fields derive_status reads left open
SamplePacket(fail_class, approval, manifests) ==
    [ATP |-> ATP_VERSION,
     ID |-> PacketId(SampleStream, 1),
     TS |-> <<"t", "1", "Z">>,
     MODE |-> <<"PLAN">>,
     TASK |-> <<"snapshot-test">>,
     STATE_ |-> <<"git=unknown", SP, "dirty=1">>,
     PARENT |-> None,
     ETAG |-> None,
     TOOLS |-> << <<"read">> >>,
     APPROVAL |-> approval,
     FAIL_CLASS |-> fail_class,
     goal |-> <<"Snapshot", SP, "baseline.">>,
     now |-> << <<"Seed", SP, "test", SP, "packets.">> >>,
     next |-> << <<"Build", SP, "snapshot.">> >>,
     risks |-> << <<"None.">> >>,
     accept |-> << <<"Snapshot", SP, "is", SP, "deterministic.">> >>,
     artifacts |-> [manifests |-> manifests],
     questions |-> << <<"none">> >>,
     confidence |-> NoConfidence]

SampleEvent ==
    [ts |-> <<"t", "5", "Z">>, id |-> PacketId(SampleStream, 1),
     type |-> <<"PLAN_CREATED">>, summary |-> <<"created">>]

InitStatus ==
    /\ \E fail_class \in FailClasses, approval \in Approvals, manifests \in ManifestLists :
          hin = SamplePacket(fail_class, approval, manifests)
    /\ streams = WriteFile(<<>>, SampleStream, PacketFileName(1, "request"), render_packet(hin))
    /\ events = (SampleStream :> <<SampleEvent>>)
    /\ indexFile = save_index(rebuild_index(streams))
    /\ artifacts \in SUBSET {ManifestA, ManifestB}
    /\ snapshotFile = NoSnapshot
    /\ clock = 1
    /\ calls = <<>>
    /\ proc = <<>>
    /\ hout = <<>>

NextStatus == BuildSnapshot

SpecStatus == InitStatus /\ [][NextStatus]_vars

-----------------------------------------------------------------------------
(* rebuild_index over trees that hold more than packet files.              *)

IndexStreamA == <<"s1">>
IndexStreamB == <<"s2">>

\* Names a stream directory may hold: packets, two of them with the same
\* number, a directory named like a packet, a name without a middle part and
\* the event log
NameOne == PacketFileName(1, "request")
NameTwo == PacketFileName(2, "response")
NameTwoReview == PacketFileName(2, "review")
NameDir == PacketFileName(4, "request")
NameNoMiddle == Pad6(1) \o <<".", "atp">>
NameEvents == <<"events", ".", "jsonl">>
IndexNames == {NameOne, NameTwo, NameTwoReview, NameDir, NameNoMiddle, NameEvents}

\* A stream directory with these names in it
DirWith(names) == [n \in names |-> IF n = NameDir THEN DirEntry ELSE <<"x">>]

\* An index.json left over from another tree
StaleIndex ==
    save_index([atp_version |-> "0.1",
                streams |-> (IndexStreamA :> [latest_seq |-> 9,
                                              packet_files |-> <<PacketFileName(9, "review")>>])])

InitIndex ==
    /\ \E a \in {DirWith(names) : names \in SUBSET IndexNames} \cup {PlainFile},
          b \in {DirWith({}), DirWith({NameOne}), DirWith({NameEvents})},
          present \in SUBSET {IndexStreamA, IndexStreamB} :
          streams = [s \in present |-> IF s = IndexStreamA THEN a ELSE b]
    /\ indexFile \in {NoIndex, StaleIndex}
    /\ events = <<>>
    /\ artifacts = {}
    /\ snapshotFile = NoSnapshot
    /\ clock = 1
    /\ calls = <<>>
    /\ proc = <<>>
    /\ hin = <<>>
    /\ hout = <<>>

\* rebuild_index(root): ensure_layout, then the scan; hout keeps what it returned
RebuildIndex ==
    /\ Len(hout) < MaxBuilds
    /\ hout' = Append(hout, rebuild_index(streams))
    /\ indexFile' = ensure_layout(indexFile)
    /\ UNCHANGED <<streams, events, artifacts, snapshotFile, clock, calls, proc, hin>>

\* The index command with --write (atp.py 675-680)
IndexWrite ==
    /\ indexFile # save_index(rebuild_index(streams))
    /\ indexFile' = save_index(rebuild_index(streams))
    /\ UNCHANGED <<streams, events, artifacts, snapshotFile, clock, calls, proc, hin, hout>>

\* write_packet that starts another stream
NewStream(mode, task, state) ==
    /\ SampleStream \notin DOMAIN streams
    /\ write_packet(mode, task, SampleStream, state)

NextIndex ==
    \/ RebuildIndex
    \/ IndexWrite
    \/ \E state \in GitStates : NewStream(<<"PLAN">>, <<"t1">>, state)

SpecIndex == InitIndex /\ [][NextIndex]_vars

-----------------------------------------------------------------------------
(* render_packet followed by parse_packet_text, on valid packet dicts.     *)

\* The packet write_packet builds, with fields set to other valid values
CodecPacket(task, tools, parent, now, manifests, confidence, goal) ==
    [build_packet(<<"PLAN">>, task, 2, <<"s1">>, isoformat(1), <<"git=unknown", SP, "dirty=1">>)
        EXCEPT !.TOOLS = tools, !.PARENT = parent, !.now = now,
               !.artifacts = [manifests |-> manifests], !.confidence = confidence,
               !.goal = goal]

InitCodec ==
    /\ \E task \in {<<"t1">>, <<SP, "t1">>},
          tools \in {<< <<"read">>, <<"diff">> >>, <<>>, << <<"read", ",", "diff">> >>},
          parent \in {None, PacketId(<<"s1">>, 1), <<"null">>},
          now \in {<< <<"fact">>, <<"more">> >>, <<>>, << <<"fact", SP>> >>},
          manifests \in {<<PlaceholderManifest>>, <<>>},
          confidence \in {NoConfidence, [kind |-> "float", v |-> 5], [kind |-> "int", v |-> 10],
                          [kind |-> "nan", v |-> 0], [kind |-> "bool", v |-> 10]},
          goal \in {<<"<fill_in>">>, <<"a", NL, "b">>} :
          /\ hin = CodecPacket(task, tools, parent, now, manifests, confidence, goal)
          /\ validate_packet(hin)
    /\ streams = <<>>
    /\ events = <<>>
    /\ indexFile = NoIndex
    /\ artifacts = {}
    /\ snapshotFile = NoSnapshot
    /\ clock = 1
    /\ calls = <<>>
    /\ proc = <<>>
    /\ hout = <<>>

\* parse_packet_text(render_packet(packet))
RoundTrip ==
    /\ hout = <<>>
    /\ hout' = <<parse_packet_text(render_packet(hin))>>
    /\ UNCHANGED <<streams, events, indexFile, artifacts, snapshotFile, clock, calls, proc, hin>>

NextCodec == RoundTrip

SpecCodec == InitCodec /\ [][NextCodec]_vars

-----------------------------------------------------------------------------
(* Writers that run at the same time: write_packet and approve_stream step *)
(* by step, each step one access to the file system.                       *)

Writers == {"w1", "w2"}

IdleWriter ==
    [pc |-> "idle", op |-> "", mode |-> <<>>, stream_id |-> <<>>, seq |-> 0, name |-> <<>>,
     text |-> <<>>, packet_id |-> <<>>, index |-> EmptyIndex]

InitWriters ==
    /\ streams = <<>>
    /\ events = <<>>
    /\ indexFile = NoIndex
    /\ artifacts = {}
    /\ snapshotFile = NoSnapshot
    /\ clock = 1
    /\ calls = <<>>
    /\ proc = [w \in Writers |-> IdleWriter]
    /\ hin = <<>>
    /\ hout = <<>>

\* The packet files there will be once every writer that has scanned has written
FilesAfter ==
    UNION {{<<s, n>> : n \in DOMAIN streams[s]} : s \in DOMAIN streams}
    \cup {<<proc[w].stream_id, proc[w].name>> : w \in {v \in Writers : proc[v].pc = "write"}}

Room(stream, name) == Cardinality(FilesAfter \cup {<<stream, name>>}) <= MaxPackets

\* No other writer is at work on the stream
NoWriterOn(w, stream) == \A v \in Writers \ {w} : proc[v].pc = "idle" \/ proc[v].stream_id # stream

\* write_packet saving an index that already lists the packet it is about to write
ScanWrite_index_first(w, mode, task, stream_id, state) ==
    LET made == mkdir(streams, stream_id)
        seq == next_sequence(made[stream_id])
        packet == build_packet(mode, task, seq, stream_id, isoformat(clock), state)
        name == PacketFileName(seq, packet_suffix(mode))
    IN  /\ proc[w].pc = "idle"
        /\ Room(stream_id, name)
        /\ validate_packet(packet)
        /\ streams' = made
        /\ indexFile' = save_index(rebuild_index(WriteFile(made, stream_id, name, render_packet(packet))))
        /\ proc' = [proc EXCEPT ![w] =
                      [pc |-> "write", op |-> "write_packet", mode |-> mode,
                       stream_id |-> stream_id, seq |-> seq, name |-> name,
                       text |-> render_packet(packet), packet_id |-> packet.ID,
                       index |-> EmptyIndex]]
        /\ UNCHANGED <<events, artifacts, snapshotFile, clock, calls, hin, hout>>

\* write_packet up to the packet it will write (atp.py 414-420): the directory
\* is made and scanned for the next sequence
ScanWrite(w, mode, task, stream_id, state) ==
    LET made == mkdir(streams, stream_id)
        seq == next_sequence(made[stream_id])
        packet == build_packet(mode, task, seq, stream_id, isoformat(clock), state)
        name == PacketFileName(seq, packet_suffix(mode))
    IN  /\ proc[w].pc = "idle"
        /\ Room(stream_id, name)
        /\ validate_packet(packet)
        /\ streams' = made
        /\ indexFile' = ensure_layout(indexFile)
        /\ proc' = [proc EXCEPT ![w] =
                      [pc |-> "write", op |-> "write_packet", mode |-> mode,
                       stream_id |-> stream_id, seq |-> seq, name |-> name,
                       text |-> render_packet(packet), packet_id |-> packet.ID,
                       index |-> EmptyIndex]]
        /\ UNCHANGED <<events, artifacts, snapshotFile, clock, calls, hin, hout>>

\* write_packet started by a caller that keeps to one writer per stream
ScanWriteAlone(w, mode, task, stream_id, state) ==
    /\ NoWriterOn(w, stream_id)
    /\ ScanWrite(w, mode, task, stream_id, state)

\* approve_stream appending its APPROVAL_GRANTED event before it writes the packet
ScanApproveAlone_event_first(w, stream_id, rationale, state) ==
    LET dir == DirOf(streams, stream_id)
        latest == parse_packet_file(dir[latest_packet_file(dir)])
        seq == next_sequence(dir)
        packet == approval_packet(stream_id, rationale, seq, latest.p, isoformat(clock), state)
        name == PacketFileName(seq, "review")
    IN  /\ proc[w].pc = "idle"
        /\ NoWriterOn(w, stream_id)
        /\ Room(stream_id, name)
        /\ indexFile' = ensure_layout(indexFile)
        /\ IF /\ stream_id \in DOMAIN streams
              /\ list_packet_files(dir) # <<>>
              /\ latest.ok
              /\ validate_packet(packet)
           THEN /\ events' = (stream_id :>
                                  Append(EventsOf(events, stream_id),
                                         event_payload(stream_id, seq, <<"APPROVAL_GRANTED">>,
                                                       <<"Human", SP, "approval", SP, "granted">>, <<>>,
                                                       packet.ID, isoformat(clock)))) @@ events
                /\ proc' = [proc EXCEPT ![w] =
                                [pc |-> "write", op |-> "approve_stream", mode |-> <<"REVIEW">>,
                                 stream_id |-> stream_id, seq |-> seq, name |-> name,
                                 text |-> render_packet(packet), packet_id |-> packet.ID,
                                 index |-> EmptyIndex]]
           ELSE UNCHANGED <<proc, events>>
        /\ UNCHANGED <<streams, artifacts, snapshotFile, clock, calls, hin, hout>>

\* approve_stream up to the packet it will write (atp.py 511-541), by a caller
\* that keeps to one writer per stream; an error ends the call
ScanApproveAlone(w, stream_id, rationale, state) ==
    LET dir == DirOf(streams, stream_id)
        latest == parse_packet_file(dir[latest_packet_file(dir)])
        seq == next_sequence(dir)
        packet == approval_packet(stream_id, rationale, seq, latest.p, isoformat(clock), state)
        name == PacketFileName(seq, "review")
    IN  /\ proc[w].pc = "idle"
        /\ NoWriterOn(w, stream_id)
        /\ Room(stream_id, name)
        /\ indexFile' = ensure_layout(indexFile)
        /\ IF /\ stream_id \in DOMAIN streams
              /\ list_packet_files(dir) # <<>>
              /\ latest.ok
              /\ validate_packet(packet)
           THEN proc' = [proc EXCEPT ![w] =
                           [pc |-> "write", op |-> "approve_stream", mode |-> <<"REVIEW">>,
                            stream_id |-> stream_id, seq |-> seq, name |-> name,
                            text |-> render_packet(packet), packet_id |-> packet.ID,
                            index |-> EmptyIndex]]
           ELSE UNCHANGED proc
        /\ UNCHANGED <<streams, events, artifacts, snapshotFile, clock, calls, hin, hout>>

\* packet_path.write_text(render_packet(packet))
WriteStep(w) ==
    /\ proc[w].pc = "write"
    /\ streams' = WriteFile(streams, proc[w].stream_id, proc[w].name, proc[w].text)
    /\ proc' = [proc EXCEPT ![w].pc = IF proc[w].op = "approve_stream" THEN "event" ELSE "rebuild"]
    /\ UNCHANGED <<events, indexFile, artifacts, snapshotFile, clock, calls, hin, hout>>

\* append_event(stream_id, "APPROVAL_GRANTED", ...) of approve_stream
EventStep(w) ==
    LET last == list_sequences(streams[proc[w].stream_id])
    IN  /\ proc[w].pc = "event"
        /\ events' = (proc[w].stream_id :>
                         Append(EventsOf(events, proc[w].stream_id),
                                event_payload(proc[w].stream_id, last[Len(last)], <<"APPROVAL_GRANTED">>,
                                              <<"Human", SP, "approval", SP, "granted">>, <<>>,
                                              proc[w].packet_id, isoformat(clock)))) @@ events
        /\ indexFile' = ensure_layout(indexFile)
        /\ proc' = [proc EXCEPT ![w].pc = "rebuild"]
        /\ UNCHANGED <<streams, artifacts, snapshotFile, clock, calls, hin, hout>>

\* index = rebuild_index(root)
RebuildStep(w) ==
    /\ proc[w].pc = "rebuild"
    /\ indexFile' = ensure_layout(indexFile)
    /\ proc' = [proc EXCEPT ![w].pc = "save", ![w].index = rebuild_index(streams)]
    /\ UNCHANGED <<streams, events, artifacts, snapshotFile, clock, calls, hin, hout>>

\* save_index(root, index), and the call returns its PacketInfo
SaveStep(w) ==
    /\ proc[w].pc = "save"
    /\ indexFile' = save_index(proc[w].index)
    /\ hout' = Append(hout, [mode |-> proc[w].mode,
                             info |-> PacketInfo(proc[w].op, proc[w].stream_id, proc[w].seq, proc[w].name)])
    /\ proc' = [proc EXCEPT ![w] = IdleWriter]
    /\ UNCHANGED <<streams, events, artifacts, snapshotFile, clock, calls, hin>>

\* Two write_packet callers on one stream, with nothing to keep them apart
NextRace ==
    \/ \E w \in Writers, mode \in {<<"PLAN">>, <<"EXEC">>}, state \in GitStates :
           ScanWrite(w, mode, <<"t1">>, <<"s1">>, state)
    \/ \E w \in Writers : WriteStep(w)
    \/ \E w \in Writers : RebuildStep(w)
    \/ \E w \in Writers : SaveStep(w)

SpecRace == InitWriters /\ [][NextRace]_vars

\* Callers that keep to one writer per stream, on two streams
NextStreams ==
    \/ \E w \in Writers, stream_id \in {<<"s1">>, <<"s2">>}, state \in GitStates :
           ScanWriteAlone(w, <<"EXEC">>, <<"t1">>, stream_id, state)
    \/ \E w \in Writers, stream_id \in {<<"s1">>, <<"s2">>}, state \in GitStates :
           ScanApproveAlone(w, stream_id, <<>>, state)
    \/ \E w \in Writers : WriteStep(w)
    \/ \E w \in Writers : EventStep(w)
    \/ \E w \in Writers : RebuildStep(w)
    \/ \E w \in Writers : SaveStep(w)

SpecStreams == InitWriters /\ [][NextStreams]_vars

-----------------------------------------------------------------------------
(* One stream whose writer can be interrupted between two steps, read by   *)
(* build_snapshot and repaired by the index command.                       *)

\* The call ends where it stands: the process is killed, or a step raises
Interrupt(w) ==
    /\ proc[w].pc # "idle"
    /\ proc' = [proc EXCEPT ![w] = IdleWriter]
    /\ UNCHANGED <<streams, events, indexFile, artifacts, snapshotFile, clock, calls, hin, hout>>

NextTorn ==
    \/ \E w \in Writers, mode \in {<<"PLAN">>, <<"EXEC">>}, state \in GitStates :
           ScanWriteAlone(w, mode, <<"t1">>, <<"s1">>, state)
    \/ \E w \in Writers, state \in GitStates : ScanApproveAlone(w, <<"s1">>, <<>>, state)
    \/ \E w \in Writers : WriteStep(w)
    \/ \E w \in Writers : EventStep(w)
    \/ \E w \in Writers : RebuildStep(w)
    \/ \E w \in Writers : SaveStep(w)
    \/ \E w \in Writers : Interrupt(w)
    \/ IndexWrite
    \/ BuildSnapshot

SpecTorn == InitWriters /\ [][NextTorn]_vars

-----------------------------------------------------------------------------
(* A session of one writer that runs every command: new, approve, event,   *)
(* etag, index, and the snapshot builder.                                  *)

\* A task that holds a carriage return
CarriageTask == <<"a", CR, "b">>

\* The (mode, task) pairs of the session; the empty task fails validation
SessionArgs ==
    {<<<<"PLAN">>, <<"t1">>>>, <<<<"PLAN">>, CarriageTask>>, <<<<"PLAN">>, <<>>>>}

\* What main returns for a command: 0, or 1 when the call raised
ExitStatus(command, stream_id, ok) ==
    <<[command |-> command, stream_id |-> stream_id, status |-> IF ok THEN 0 ELSE 1]>>

\* The new command (atp.py 681-686)
NewCommand(mode, task, stream_id, state) ==
    /\ TotalPackets < MaxSessionPackets
    /\ write_packet(mode, task, stream_id, state)

\* The approve command (atp.py 712-716)
ApproveReturned(stream_id, r) ==
    /\ ApproveDone(stream_id, r)
    /\ hout' = ExitStatus("approve", stream_id, r.ok)

ApproveCommand(stream_id, rationale, state) ==
    /\ TotalPackets < MaxSessionPackets
    /\ ApproveReturned(stream_id, approve_stream(stream_id, rationale, state, isoformat(clock), streams, events))
    /\ UNCHANGED <<artifacts, snapshotFile, clock, proc, hin>>

\* The event command (atp.py 696-711)
EventReturned(stream_id, r) ==
    /\ events' = r.events
    /\ hout' = ExitStatus("event", stream_id, r.ok)

EventCommand(stream_id, event_type, summary, packet_id) ==
    /\ \A s \in DOMAIN events : Len(events[s]) < MaxEvents
    /\ EventReturned(stream_id, append_event(stream_id, event_type, summary, <<>>, packet_id,
                                             isoformat(clock), streams, events))
    /\ indexFile' = ensure_layout(indexFile)
    /\ UNCHANGED <<streams, artifacts, snapshotFile, clock, calls, proc, hin>>

\* The etag command (atp.py 687-691) on a packet file whose header holds fewer
\* than MaxEtagLines ETAG lines; an error leaves the file as it is
EtagWritten(stream, name, r) ==
    /\ r.ok
    /\ streams' = WriteFile(streams, stream, name, r.content)

EtagCommand(stream, name) ==
    /\ Cardinality(EtagLines(streams[stream][name])) < MaxEtagLines
    /\ EtagWritten(stream, name, update_etag(streams[stream][name]))
    /\ hout' = <<>>
    /\ UNCHANGED <<events, indexFile, artifacts, snapshotFile, clock, calls, proc, hin>>

NextSession ==
    \/ \E arg \in SessionArgs, state \in GitStates : NewCommand(arg[1], arg[2], <<"s1">>, state)
    \/ \E stream_id \in {<<"s1">>, <<"s2">>}, state \in GitStates :
           ApproveCommand(stream_id, <<>>, state)
    \/ \E stream_id \in {<<"s1">>, <<"s2">>}, summary \in {<<"created">>, <<>>} :
           EventCommand(stream_id, <<"PLAN_CREATED">>, summary, <<>>)
    \/ \E stream \in DOMAIN streams : \E name \in DOMAIN streams[stream] : EtagCommand(stream, name)
    \/ RebuildIndex
    \/ BuildSnapshot
    \/ WriteSnapshot

SpecSession == Init /\ [][NextSession]_vars

-----------------------------------------------------------------------------
(* validate_packet over packets in and out of the schema, and the paths    *)
(* that rely on it: parse_packet_file and write_packet.                    *)

\* A packet dict a caller of the library can hand over
AnyPacket(mode, approval, fail_class, now, confidence, atp) ==
    [build_packet(mode, <<"t1">>, 1, <<"s1">>, isoformat(1), <<"git=unknown", SP, "dirty=1">>)
        EXCEPT !.APPROVAL = approval, !.FAIL_CLASS = fail_class, !.now = now,
               !.confidence = confidence, !.ATP = atp]

InitValidate ==
    /\ \E mode \in Modes \cup {<<"BOGUS">>},
          approval \in Approvals \cup {<<"maybe">>},
          fail_class \in {<<"NONE">>, <<"TOOLING">>, <<"OTHER">>},
          now \in {<< <<"fact">> >>, << <<"fact">>, NotAString >>},
          confidence \in {NoConfidence, [kind |-> "float", v |-> 5], [kind |-> "float", v |-> 20]},
          atp \in {ATP_VERSION, <<"ATP/0.2">>} :
          hin = AnyPacket(mode, approval, fail_class, now, confidence, atp)
    /\ streams = <<>>
    /\ events = <<>>
    /\ indexFile = NoIndex
    /\ artifacts = {}
    /\ snapshotFile = NoSnapshot
    /\ clock = 1
    /\ calls = <<>>
    /\ proc = <<>>
    /\ hout = <<>>

\* validate_packet(packet): accepted when it does not raise
ValidatePacket ==
    /\ hout = <<>>
    /\ hout' = <<[accepted |-> validate_packet(hin), packet |-> hin]>>
    /\ UNCHANGED <<streams, events, indexFile, artifacts, snapshotFile, clock, calls, proc, hin>>

\* parse_packet_file on the packet as a file holds it
ParsedFile(r) == hout' = <<[accepted |-> r.ok, packet |-> r.p]>>

ParsePacketFile ==
    /\ hout = <<>>
    /\ require_string_list(hin.now)
    /\ ParsedFile(parse_packet_file(render_packet(hin)))
    /\ UNCHANGED <<streams, events, indexFile, artifacts, snapshotFile, clock, calls, proc, hin>>

\* write_packet(mode, task, stream_id, root) called with the packet's MODE
WriteMode(state) ==
    /\ streams = <<>>
    /\ write_packet(hin.MODE, hin.TASK, <<"s1">>, state)

NextValidate ==
    \/ ValidatePacket
    \/ ParsePacketFile
    \/ \E state \in GitStates : WriteMode(state)

SpecValidate == InitValidate /\ [][NextValidate]_vars

-----------------------------------------------------------------------------
(* safe_resolve of the HTTP layer (backend/app/api/atp_streams.py).  A     *)
(* part is a sequence of characters and percent escapes; a path is the     *)
(* sequence of its segments below the file system root.                    *)

PartTokens == {"/", "\\", ".", "a", "ln", "2e", "%2e", "%2f", "%5c", "%25"}

\* urllib.parse.unquote: one pass over the percent escapes
unquote(value) ==
    [i \in 1..Len(value) |->
        CASE value[i] = "%2e" -> "."
          [] value[i] = "%2f" -> "/"
          [] value[i] = "%5c" -> "\\"
          [] value[i] = "%25" -> "%"
          [] OTHER -> value[i]]

\* raw.replace("\\", "/")
ReplaceBackslash(raw) == [i \in 1..Len(raw) |-> IF raw[i] = "\\" THEN "/" ELSE raw[i]]

\* One pass of the loop of contains_traversal, on the normalized text
TraversalIn(normalized) ==
    \/ StartsWith(normalized, <<"/">>)
    \/ \E k \in 1..Len(Split(normalized, {"/"})) : Split(normalized, {"/"})[k] = <<".", ".">>

\* contains_traversal looking at the raw value only
contains_traversal_raw(value) == TraversalIn(List(ReplaceBackslash(value)))

contains_traversal(value) ==
    \/ TraversalIn(List(ReplaceBackslash(value)))
    \/ TraversalIn(List(ReplaceBackslash(unquote(value))))

\* The directory safe_resolve is given, a symbolic link in it, and where that leads
BaseDir == << <<"state">>, <<"s1">> >>
LinkName == <<"ln">>
LinkTarget == << <<"secret">> >>

\* Path.resolve() entering one segment: . and the empty segment stay, .. goes
\* up, the symbolic link is followed
EnterSegment(cur, segment) ==
    IF segment = <<>> \/ segment = <<".">> THEN cur
    ELSE IF segment = <<".", ".">> THEN (IF cur = <<>> THEN cur ELSE SubSeq(cur, 1, Len(cur) - 1))
    ELSE IF cur = BaseDir /\ segment = LinkName THEN LinkTarget
    ELSE Append(cur, segment)

RECURSIVE ResolveFrom(_, _, _)
ResolveFrom(cur, segments, i) ==
    IF i > Len(segments) THEN cur ELSE ResolveFrom(EnterSegment(cur, segments[i]), segments, i + 1)

\* base.joinpath(part).resolve(): an absolute part replaces the base
joinpath_resolve(base, part) ==
    ResolveFrom(IF StartsWith(part, <<"/">>) THEN <<>> ELSE base, Split(part, {"/"}), 1)

\* base in candidate.parents
InParents(base, candidate) ==
    Len(candidate) > Len(base) /\ SubSeq(candidate, 1, Len(base)) = base

\* safe_resolve from the candidate on (atp_streams.py 44-48)
CheckedCandidate(base, candidate) ==
    IF base = candidate \/ InParents(base, candidate)
    THEN [status |-> 200, path |-> candidate]
    ELSE [status |-> 400, path |-> <<>>]

\* safe_resolve(base, part): the path, or the HTTPException with status 400
safe_resolve(base, part) ==
    IF contains_traversal(part) THEN [status |-> 400, path |-> <<>>]
    ELSE CheckedCandidate(base, joinpath_resolve(base, part))

InitResolve ==
    /\ hin \in UNION {[1..n -> PartTokens] : n \in 0..MaxPartLen}
    /\ streams = <<>>
    /\ events = <<>>
    /\ indexFile = NoIndex
    /\ artifacts = {}
    /\ snapshotFile = NoSnapshot
    /\ clock = 1
    /\ calls = <<>>
    /\ proc = <<>>
    /\ hout = <<>>

SafeResolve ==
    /\ hout = <<>>
    /\ hout' = <<safe_resolve(BaseDir, hin)>>
    /\ UNCHANGED <<streams, events, indexFile, artifacts, snapshotFile, clock, calls, proc, hin>>

NextResolve == SafeResolve

SpecResolve == InitResolve /\ [][NextResolve]_vars

-----------------------------------------------------------------------------
(* bundle_artifact: an input file or directory is hashed and copied below  *)
(* state/artifacts/<hash>/.                                                *)

ManifestName == <<"manifest.json">>

\* What a file below state/artifacts holds: the bytes copied into it, or the
\* JSON object of a manifest
FileContent(bytes) ==
    [json |-> FALSE, bytes |-> bytes, hash |-> <<>>, kind |-> <<>>, stream |-> <<>>,
     created_at |-> <<>>, source |-> <<>>, files |-> <<>>]

\* The directories an input lives in, the names of input files, and file bytes
Locations == {<<"/", "w1">>, <<"/", "w2">>}
InputFileNames == {<<"sample.diff">>, ManifestName}
DirFileNames == {<<"a.txt">>, ManifestName}
Bytes == {<<"x">>, <<"y">>}

\* --in: a file, or a directory that holds files
BundleInputs ==
    {[at |-> at, name |-> name, is_file |-> TRUE, bytes |-> bytes, files |-> <<>>] :
        at \in Locations, name \in InputFileNames, bytes \in Bytes}
    \cup UNION {{[at |-> at, name |-> <<"in">>, is_file |-> FALSE, bytes |-> <<>>, files |-> files] :
                    at \in Locations, files \in [names -> Bytes]} :
                names \in (SUBSET DirFileNames) \ {{}}}

\* str(input_path.resolve())
InputPath(input) == input.at \o <<"/">> \o input.name

\* The orders in which os.walk can list the files of the input
WalkOrders(input) ==
    IF input.is_file THEN {<<>>}
    ELSE {walk \in [1..Cardinality(DOMAIN input.files) -> DOMAIN input.files] :
             \A i, j \in DOMAIN walk : walk[i] = walk[j] => i = j}

\* collect_paths(input_path), the directory walked in the order walk
collect_paths(input, walk) ==
    IF input.is_file THEN <<InputPath(input)>>
    ELSE [i \in 1..Len(walk) |-> InputPath(input) \o <<"/">> \o walk[i]]

\* file_path.relative_to(input_path)
relative_to(path, input_path) == SubSeq(path, Len(input_path) + 2, Len(path))

\* path.read_bytes()
read_bytes(input, path) ==
    IF input.is_file THEN input.bytes ELSE input.files[relative_to(path, InputPath(input))]

\* The order of str on the path names of the inputs
PathRank(tok) ==
    CASE tok = "/" -> 0
      [] tok = "a.txt" -> 1
      [] tok = "in" -> 2
      [] tok = "manifest.json" -> 3
      [] tok = "sample.diff" -> 4
      [] tok = "w1" -> 5
      [] tok = "w2" -> 6
      [] OTHER -> 7

PathLess(a, b) ==
    LET diff == {i \in 1..Min({Len(a), Len(b)}) : a[i] # b[i]}
    IN  IF diff = {} THEN Len(a) < Len(b)
        ELSE PathRank(a[Min(diff)]) < PathRank(b[Min(diff)])

\* sorted(paths, key=lambda p: str(p))
RECURSIVE SortPaths(_)
SortPaths(S) ==
    IF S = {} THEN <<>>
    ELSE LET first == CHOOSE x \in S : \A y \in S \ {x} : PathLess(x, y)
         IN  <<first>> \o SortPaths(S \ {first})

\* The bytes the hasher is fed from the i-th sorted path on
RECURSIVE hasher_update(_, _, _)
hasher_update(sorted, input, i) ==
    IF i > Len(sorted) THEN <<>>
    ELSE sorted[i] \o <<"\\0">> \o read_bytes(input, sorted[i]) \o hasher_update(sorted, input, i + 1)

\* hasher.hexdigest(): a word that differs whenever the bytes fed differ
hexdigest(data) == <<"sha256">> \o data

\* hash_files(paths)
hash_files(paths, input) ==
    hexdigest(hasher_update(SortPaths({paths[i] : i \in 1..Len(paths)}), input, 1))

\* bundle_artifact from the digest on (atp.py 587-615): the files below
\* state/artifacts/<digest>/ after the copies and after manifest.json is written
\* last, and the pointer returned
BundleOf(stream_id, kind, input, walk, ts, digest) ==
    [digest |-> digest,
     kind |-> kind,
     stream |-> stream_id,
     input |-> input,
     dir |-> (ManifestName :>
                 [json |-> TRUE, bytes |-> <<>>, hash |-> digest, kind |-> kind, stream |-> stream_id,
                  created_at |-> ts, source |-> InputPath(input),
                  files |-> IF input.is_file THEN <<input.name>> ELSE walk])
             @@ (IF input.is_file THEN (input.name :> FileContent(input.bytes))
                 ELSE [rel \in DOMAIN input.files |-> FileContent(input.files[rel])]),
     pointer |-> IF input.is_file THEN <<digest, input.name>> ELSE <<digest, ManifestName>>]

\* bundle_artifact(stream_id, kind, input_path, root)
bundle_artifact(stream_id, kind, input, walk, ts) ==
    BundleOf(stream_id, kind, input, walk, ts, hash_files(collect_paths(input, walk), input))

\* The path of a file of an artifact, below the root
ArtifactPath(digest, rel) == <<"state/artifacts/">> \o digest \o <<"/">> \o rel

\* The bundle command (atp.py 721-724): hout keeps what each call returned and stored
Bundled(r) ==
    /\ hout' = Append(hout, r)
    /\ artifacts' = artifacts \cup {ArtifactPath(r.digest, rel) : rel \in DOMAIN r.dir}

Bundle(stream_id, kind, input, walk) ==
    /\ Len(hout) < MaxBuilds
    /\ Bundled(bundle_artifact(stream_id, kind, input, walk, isoformat(clock)))
    /\ indexFile' = ensure_layout(indexFile)
    /\ UNCHANGED <<streams, events, snapshotFile, clock, calls, proc, hin>>

NextBundle ==
    \E input \in BundleInputs : \E walk \in WalkOrders(input) : Bundle(<<"s1">>, <<"diff">>, input, walk)

SpecBundle == Init /\ [][NextBundle]_vars

-----------------------------------------------------------------------------
(* build_snapshot over up to two hand-written streams whose latest packets *)
(* differ in what derive_status reads.                                     *)

HealthStreams == {<<"s1">>, SampleStream}

\* The packet files health is counted over: FAIL_CLASS, APPROVAL, manifests
HealthFields ==
    {<<fail_class, approval, manifests>> :
        fail_class \in {<<"NONE">>, <<"SPEC">>}, approval \in Approvals,
        manifests \in {<<>>, <<ManifestA>>}}

HealthPacket(stream, fields) ==
    [SamplePacket(fields[1], fields[2], fields[3]) EXCEPT !.ID = PacketId(stream, 1)]

\* The state directory holding one packet file per chosen stream
HealthTree(chosen) ==
    [s \in DOMAIN chosen |->
        (PacketFileName(1, "request") :> render_packet(HealthPacket(s, chosen[s])))]

InitHealth ==
    /\ \E present \in SUBSET HealthStreams : \E chosen \in [present -> HealthFields] :
          /\ hin = chosen
          /\ streams = HealthTree(chosen)
    /\ events = <<>>
    /\ indexFile = save_index(rebuild_index(streams))
    /\ artifacts \in SUBSET {ManifestA}
    /\ snapshotFile = NoSnapshot
    /\ clock = 1
    /\ calls = <<>>
    /\ proc = <<>>
    /\ hout = <<>>

NextHealth ==
    \/ BuildSnapshot
    \/ WriteSnapshot

SpecHealth == InitHealth /\ [][NextHealth]_vars

-----------------------------------------------------------------------------
(* One stream on which two write_packet callers may have raced for the     *)
(* second sequence number, then written on by one writer at a time and     *)
(* read by build_snapshot.                                                 *)

\* The packet files a stream may hold in all
MaxForkPackets == 5

\* The stream after write_packet PLAN, and after the racing write_packet
\* calls of the given modes that each took sequence 2
RacedTree(modes) ==
    [n \in {PacketFileName(1, "request")} \cup {PacketFileName(2, packet_suffix(mode)) : mode \in modes} |->
        IF n = PacketFileName(1, "request")
        THEN render_packet(build_packet(<<"PLAN">>, <<"t1">>, 1, <<"s1">>, isoformat(1), <<"git=unknown", SP, "dirty=1">>))
        ELSE render_packet(build_packet(CHOOSE mode \in modes : n = PacketFileName(2, packet_suffix(mode)),
                                        <<"t1">>, 2, <<"s1">>, isoformat(1), <<"git=unknown", SP, "dirty=1">>))]

InitFork ==
    /\ \E modes \in SUBSET {<<"PLAN">>, <<"EXEC">>} : streams = (<<"s1">> :> RacedTree(modes))
    /\ events = <<>>
    /\ indexFile = save_index(rebuild_index(streams))
    /\ artifacts = {}
    /\ snapshotFile = NoSnapshot
    /\ clock = 1
    /\ calls = <<>>
    /\ Idle

ForkWrite(mode, state) ==
    /\ TotalPackets < MaxForkPackets
    /\ write_packet(mode, <<"t1">>, <<"s1">>, state)

ForkApprove(state) ==
    /\ TotalPackets < MaxForkPackets
    /\ ApproveDone(<<"s1">>, approve_stream(<<"s1">>, <<>>, state, isoformat(clock), streams, events))
    /\ hout' = <<>>
    /\ UNCHANGED <<artifacts, snapshotFile, clock, proc, hin>>

NextFork ==
    \/ \E mode \in {<<"PLAN">>, <<"EXEC">>}, state \in GitStates : ForkWrite(mode, state)
    \/ \E state \in GitStates : ForkApprove(state)
    \/ BuildSnapshot

SpecFork == InitFork /\ [][NextFork]_vars

-----------------------------------------------------------------------------
(* The event command with --extra key=value pairs, on a stream that new    *)
(* writes to while the clock moves on.                                     *)

\* parse_kv_pairs: the dict of the pairs, a later pair replacing an earlier
\* one with the same key
parse_kv_pairs(items) ==
    [key \in {items[i][1] : i \in 1..Len(items)} |->
        items[Max({i \in 1..Len(items) : items[i][1] = key})][2]]

\* The --extra lists of the session: none, a key of its own, and the keys
\* append_event sets itself
ExtraArgs ==
    {<<>>,
     << <<"note", <<"x">>>> >>,
     << <<"id", <<"evil", "/", "0", "0", "0", "0", "0", "9">>>> >>,
     << <<"ts", <<"t", "0", "Z">>>> >>,
     << <<"type", <<"OTHER">>>> >>,
     << <<"summary", <<"rewritten">>>> >>,
     << <<"packet_id", <<"evil", "/", "0", "0", "0", "0", "0", "9">>>> >>}

\* append_event as the event command and the library callers run it; ts = <<>>
\* is no ts_override, and the current time is taken
EventWith(stream_id, event_type, summary, items, packet_id, ts) ==
    /\ \A s \in DOMAIN events : Len(events[s]) < MaxEvents
    /\ EventReturned(stream_id,
                     append_event(stream_id, event_type, summary, parse_kv_pairs(items), packet_id,
                                  IF ts # <<>> THEN ts ELSE isoformat(clock), streams, events))
    /\ hin' = [stream_id |-> stream_id, type |-> event_type, summary |-> summary,
               extra |-> items, packet_id |-> packet_id, ts |-> ts]
    /\ indexFile' = ensure_layout(indexFile)
    /\ UNCHANGED <<streams, artifacts, snapshotFile, clock, calls, proc>>

NextEvent ==
    \/ \E state \in GitStates : NewCommand(<<"PLAN">>, <<"t1">>, <<"s1">>, state)
    \/ \E items \in ExtraArgs, packet_id \in {<<>>, PacketId(<<"s1">>, 1)}, ts \in {<<>>, <<"t", "7", "Z">>} :
           EventWith(<<"s1">>, <<"PLAN_CREATED">>, <<"created">>, items, packet_id, ts)
    \/ Tick

SpecEvent == Init /\ [][NextEvent]_vars

-----------------------------------------------------------------------------
(* build_snapshot over one stream whose events.jsonl is absent, empty or   *)
(* ends in lines of every kind.                                            *)

\* The lines an events.jsonl may hold: the event of the test, the lines that
\* are no JSON object, and objects whose ts is missing, not a string (5), or
\* a string that is no timestamp
LogLines ==
    {SampleEvent, BlankLine, TornLine, ValueLine,
     [id |-> PacketId(SampleStream, 1)],
     [ts |-> NotAString, id |-> PacketId(SampleStream, 1)],
     [ts |-> <<"nonsense">>, id |-> PacketId(SampleStream, 1)]}

InitLog ==
    /\ hin = SamplePacket(<<"NONE">>, <<"none">>, <<>>)
    /\ streams = WriteFile(<<>>, SampleStream, PacketFileName(1, "request"), render_packet(hin))
    /\ \/ events = <<>>
       \/ events = (SampleStream :> <<>>)
       \/ \E line \in LogLines : events = (SampleStream :> <<line>>)
       \/ \E first \in LogLines, last \in LogLines : events = (SampleStream :> <<first, last>>)
    /\ indexFile = save_index(rebuild_index(streams))
    /\ artifacts = {}
    /\ snapshotFile = NoSnapshot
    /\ clock = 1
    /\ calls = <<>>
    /\ proc = <<>>
    /\ hout = <<>>

\* build_snapshot(root) called: it returns the snapshot, or ends in an exception
SnapshotCalled(built) ==
    hout' = Append(hout, [returned |-> built.ok,
                          streams |-> IF built.ok THEN built.snapshot.streams ELSE <<>>])

CallBuildSnapshot ==
    /\ Len(hout) < MaxBuilds
    /\ SnapshotCalled(build_snapshot(indexFile, streams, events, artifacts))
    /\ UNCHANGED <<streams, events, indexFile, artifacts, snapshotFile, clock, calls, proc, hin>>

NextLog == CallBuildSnapshot

SpecLog == InitLog /\ [][NextLog]_vars

-----------------------------------------------------------------------------
(* The approve command, again and again, and new, on a stream whose first  *)
(* packet was written by hand with any MODE and APPROVAL.                  *)

\* The first packet of the stream: the fields approve_stream might look at
FirstPacket(mode, approval, fail_class) ==
    [build_packet(mode, <<"t1">>, 1, <<"s1">>, isoformat(1), <<"git=unknown", SP, "dirty=1">>)
        EXCEPT !.APPROVAL = approval, !.FAIL_CLASS = fail_class]

InitApprove ==
    /\ \E mode \in Modes, approval \in Approvals \cup {<<"maybe">>}, fail_class \in {<<"NONE">>, <<"SPEC">>} :
          hin = FirstPacket(mode, approval, fail_class)
    /\ streams = WriteFile(<<>>, <<"s1">>, PacketFileName(1, packet_suffix(hin.MODE)), render_packet(hin))
    /\ events = <<>>
    /\ indexFile = save_index(rebuild_index(streams))
    /\ artifacts = {}
    /\ snapshotFile = NoSnapshot
    /\ clock = 1
    /\ calls = <<>>
    /\ proc = <<>>
    /\ hout = <<>>

\* The approve command (atp.py 712-716) while the stream has room
ApproveAgain(stream_id, rationale, state) ==
    /\ TotalPackets < MaxForkPackets
    /\ ApproveReturned(stream_id, approve_stream(stream_id, rationale, state, isoformat(clock), streams, events))
    /\ UNCHANGED <<artifacts, snapshotFile, clock, proc, hin>>

NextApprove ==
    \/ \E state \in GitStates : ApproveAgain(<<"s1">>, <<>>, state)
    \/ \E mode \in {<<"PLAN">>, <<"EXEC">>}, state \in GitStates : ForkWrite(mode, state)

SpecApprove == InitApprove /\ [][NextApprove]_vars

-----------------------------------------------------------------------------
(* write_packet of every mode and approve_stream, read by build_snapshot,  *)
(* with and without a file at the path the placeholder manifest names.     *)

InitPlaceholder ==
    /\ streams = <<>>
    /\ events = <<>>
    /\ indexFile = NoIndex
    /\ artifacts \in SUBSET {ManifestA, PlaceholderManifest}
    /\ snapshotFile = NoSnapshot
    /\ clock = 1
    /\ calls = <<>>
    /\ Idle

NextPlaceholder ==
    \/ \E arg \in WriteArgs, stream_id \in StreamArgs, state \in GitStates :
           WritePacket(arg[1], arg[2], stream_id, state)
    \/ \E state \in GitStates : ApproveStream(<<"s1">>, <<>>, state)
    \/ BuildSnapshot

SpecPlaceholder == InitPlaceholder /\ [][NextPlaceholder]_vars

-----------------------------------------------------------------------------
(* The approve command with a rationale of one or more lines on one        *)
(* hand-written stream, read by build_snapshot after each call.            *)

\* A rationale that holds line breaks: a section header and an item line
InjectedRationale ==
    <<"ok", NL, "ARTIFACTS", ":", NL, "-", SP, "manifest", ":", SP, "state/artifacts/nowhere/manifest.json">>

InitCleared ==
    /\ \E fail_class \in {<<"NONE">>, <<"SPEC">>}, approval \in Approvals, manifests \in {<<>>, <<ManifestA>>} :
          hin = SamplePacket(fail_class, approval, manifests)
    /\ streams = WriteFile(<<>>, SampleStream, PacketFileName(1, "request"), render_packet(hin))
    /\ events = <<>>
    /\ indexFile = save_index(rebuild_index(streams))
    /\ artifacts \in SUBSET {ManifestA}
    /\ snapshotFile = NoSnapshot
    /\ clock = 1
    /\ calls = <<>>
    /\ proc = <<>>
    /\ hout = <<>>

\* The approve command (atp.py 712-716) with the --rationale given
ApproveWith(stream_id, rationale, state) ==
    /\ TotalPackets < MaxPackets
    /\ ApproveReturned(stream_id, approve_stream(stream_id, rationale, state, isoformat(clock), streams, events))
    /\ UNCHANGED <<artifacts, snapshotFile, clock, proc, hin>>

NextCleared ==
    \/ \E rationale \in Rationales \cup {InjectedRationale}, state \in GitStates :
           ApproveWith(SampleStream, rationale, state)
    \/ CallBuildSnapshot

SpecCleared == InitCleared /\ [][NextCleared]_vars

-----------------------------------------------------------------------------
(* A stream that has reached the last six-digit sequence number.           *)

\* The largest sequence number whose file name STREAM_RE matches
LastSixDigitSeq == 999999

MaxLimitCalls == 3

\* The stream directory holding one valid packet numbered seq
LimitTree(mode, seq) ==
    WriteFile(<<>>, <<"s1">>, PacketFileName(seq, packet_suffix(mode)),
              render_packet(build_packet(mode, <<"t1">>, seq, <<"s1">>, isoformat(1),
                                         <<"git=unknown", SP, "dirty=1">>)))

InitLimit ==
    /\ \E mode \in {<<"PLAN">>, <<"EXEC">>}, seq \in {LastSixDigitSeq - 1, LastSixDigitSeq} :
          streams = LimitTree(mode, seq)
    /\ events = <<>>
    /\ indexFile = save_index(rebuild_index(streams))
    /\ artifacts = {}
    /\ snapshotFile = NoSnapshot
    /\ clock = 1
    /\ calls = <<>>
    /\ Idle

\* write_packet by the one writer of stream s1
LimitWrite(mode, state) ==
    /\ Len(CallsOf(<<"s1">>)) < MaxLimitCalls
    /\ write_packet(mode, <<"t1">>, <<"s1">>, state)

\* approve_stream by the one writer of stream s1
LimitApprove(state) ==
    /\ Len(CallsOf(<<"s1">>)) < MaxLimitCalls
    /\ ApproveDone(<<"s1">>, approve_stream(<<"s1">>, <<>>, state, isoformat(clock), streams, events))
    /\ hout' = <<>>
    /\ UNCHANGED <<artifacts, snapshotFile, clock, proc, hin>>

NextLimit ==
    \/ \E mode \in Modes, state \in GitStates : LimitWrite(mode, state)
    \/ \E state \in GitStates : LimitApprove(state)
    \/ Tick

SpecLimit == InitLimit /\ [][NextLimit]_vars

-----------------------------------------------------------------------------
(* Sessions of write_snapshot calls on a few streams.                      *)

MaxSettlePackets == 2

InitSettle ==
    /\ streams = <<>>
    /\ events = <<>>
    /\ indexFile = NoIndex
    /\ artifacts \in SUBSET {PlaceholderManifest}
    /\ snapshotFile = NoSnapshot
    /\ clock = 1
    /\ calls = <<>>
    /\ Idle

SettleWrite(mode, stream_id, state) ==
    /\ TotalPackets < MaxSettlePackets
    /\ write_packet(mode, <<"t1">>, stream_id, state)

SettleApprove(state) ==
    /\ TotalPackets < MaxSettlePackets
    /\ ApproveDone(<<"s1">>, approve_stream(<<"s1">>, <<>>, state, isoformat(clock), streams, events))
    /\ hout' = <<>>
    /\ UNCHANGED <<artifacts, snapshotFile, clock, proc, hin>>

NextSettle ==
    \/ \E mode \in {<<"PLAN">>, <<"EXEC">>}, stream_id \in StreamArgs, state \in GitStates :
           SettleWrite(mode, stream_id, state)
    \/ \E state \in GitStates : SettleApprove(state)
    \/ Tick
    \/ WriteSnapshot

SpecSettle == InitSettle /\ [][NextSettle]_vars

-----------------------------------------------------------------------------
(* The claims.                                                             *)

\* The name starts with k written in exactly six decimal digits
ZeroPadded6(name, k) ==
    /\ Len(name) > 6
    /\ \A i \in 1..6 : name[i] \in DigitSet
    /\ IntOf(SubSeq(name, 1, 6)) = k
    /\ name[7] = "."

\* The packet a packet file of a stream holds, as parse_packet_text reads it
PacketAt(stream, name) == parse_packet_text(streams[stream][name])

(* C1: with one writer at a time, after N completed write_packet and       *)
(* approve_stream calls on a stream that started empty, the stream's       *)
(* packet files carry exactly the sequence numbers 1..N, none twice, the   *)
(* k-th call returned seq = k, and its file is named with k in six digits. *)
C1_ContiguousSequences ==
    /\ \A s \in DOMAIN streams \ DOMAIN calls : PacketNames(streams[s]) = {}
    /\ \A s \in DOMAIN calls :
          LET dir == streams[s]
              N == Len(calls[s])
          IN  /\ {SeqOfName(n) : n \in PacketNames(dir)} = 1..N
              /\ Cardinality(PacketNames(dir)) = N
              /\ \A k \in 1..N :
                    /\ calls[s][k].seq = k
                    /\ calls[s][k].path \in DOMAIN dir
                    /\ ZeroPadded6(calls[s][k].path, k)

C1_Witness ==
    \E s \in DOMAIN calls :
        /\ Len(calls[s]) = 3
        /\ calls[s][1].op = "write_packet"
        /\ calls[s][2].op = "approve_stream"
        /\ calls[s][3].op = "write_packet"

(* C2: in every state reached by single-writer write_packet and            *)
(* approve_stream calls, the packet with sequence 1 has PARENT null and    *)
(* every packet with sequence N > 1 has PARENT equal to the ID of the      *)
(* packet with sequence N - 1 of the same stream.                          *)
C2_ParentChain ==
    \A s \in DOMAIN streams : \A n \in PacketNames(streams[s]) :
        PacketAt(s, n).ok =>
            IF SeqOfName(n) = 1 THEN PacketAt(s, n).p.PARENT = None
            ELSE \E m \in PacketNames(streams[s]) :
                    /\ SeqOfName(m) = SeqOfName(n) - 1
                    /\ PacketAt(s, m).ok
                    /\ PacketAt(s, m).p.ID = PacketAt(s, n).p.PARENT

\* This step is a completed approve_stream(s)
ApproveCompleted(s) ==
    /\ s \in DOMAIN calls'
    /\ Len(calls'[s]) = Len(CallsOf(s)) + 1
    /\ calls'[s][Len(calls'[s])].op = "approve_stream"

\* The latest packet of stream s is s/k and parses as valid
LatestIs(s, k) ==
    /\ s \in DOMAIN streams
    /\ PacketNames(streams[s]) # {}
    /\ SeqOfName(latest_packet_file(streams[s])) = k
    /\ parse_packet_file(streams[s][latest_packet_file(streams[s])]).ok
    /\ parse_packet_file(streams[s][latest_packet_file(streams[s])]).p.ID = s \o <<"/">> \o Pad6(k)

(* C4: for a stream S whose latest packet is S/k and parses as valid, a    *)
(* completed approve_stream(S) adds exactly one packet file,               *)
(* <k+1>.review.atp, with ID = S/(k+1), PARENT = S/k, MODE = REVIEW and    *)
(* APPROVAL = granted_by_human, and appends exactly one event, of type     *)
(* APPROVAL_GRANTED, whose id and packet_id are S/(k+1); no other packet   *)
(* or event is added or changed.                                           *)
C4_ApproveStep ==
    \A s \in DOMAIN streams : \A k \in 1..MaxPackets :
        (ApproveCompleted(s) /\ LatestIs(s, k)) =>
            LET new == Pad6(k + 1) \o <<".", "review", ".", "atp">>
                p == parse_packet_text(streams'[s][new]).p
                log == EventsOf(events', s)
            IN  /\ new \notin DOMAIN streams[s]
                /\ DOMAIN streams' = DOMAIN streams
                /\ DOMAIN streams'[s] = DOMAIN streams[s] \cup {new}
                /\ \A t \in DOMAIN streams : \A n \in DOMAIN streams[t] :
                      streams'[t][n] = streams[t][n]
                /\ \A t \in DOMAIN streams \ {s} : DOMAIN streams'[t] = DOMAIN streams[t]
                /\ p.ID = s \o <<"/">> \o Pad6(k + 1)
                /\ p.PARENT = s \o <<"/">> \o Pad6(k)
                /\ p.MODE = <<"REVIEW">>
                /\ p.APPROVAL = <<"granted_by_human">>
                /\ Len(log) = Len(EventsOf(events, s)) + 1
                /\ SubSeq(log, 1, Len(log) - 1) = EventsOf(events, s)
                /\ log[Len(log)].type = <<"APPROVAL_GRANTED">>
                /\ log[Len(log)].id = s \o <<"/">> \o Pad6(k + 1)
                /\ log[Len(log)].packet_id = s \o <<"/">> \o Pad6(k + 1)
                /\ \A t \in (DOMAIN events \cup DOMAIN events') \ {s} :
                      EventsOf(events', t) = EventsOf(events, t)

C4_Approve == [][C4_ApproveStep]_vars

C4_Witness ==
    \E s \in DOMAIN calls : \E k \in 2..Len(calls[s]) :
        /\ calls[s][k].op = "approve_stream"
        /\ PacketAt(s, calls[s][k].path).p.PARENT = s \o <<"/">> \o Pad6(k - 1)
        /\ PacketAt(s, calls[s][k - 1].path).p.ID = s \o <<"/">> \o Pad6(k - 1)
        /\ Len(EventsOf(events, s)) >= 1

(* C3: update_etag is idempotent: applied twice to a packet file that is   *)
(* not otherwise changed, it returns the same digest both times and the    *)
(* second application leaves the file as the first left it, with exactly   *)
(* one ETAG line in the header.                                            *)
C3_EtagIdempotent ==
    Len(hout) >= 2 =>
        /\ hout[2].digest = hout[1].digest
        /\ hout[2].content = hout[1].content
        /\ Cardinality(EtagLines(hout[2].content)) = 1

\* Some manifest of the packet does not exist on disk
ManifestMissing(packet) ==
    \E i \in 1..Len(packet.artifacts.manifests) : packet.artifacts.manifests[i] \notin artifacts

(* C5: the status build_snapshot reports for a stream follows from its     *)
(* latest packet by strict priority: blocked iff a manifest path does not  *)
(* exist or FAIL_CLASS is not NONE; otherwise pending iff APPROVAL is      *)
(* requested; otherwise running.                                           *)
C5_StatusPriority ==
    \A i \in 1..Len(hout) :
        /\ Len(hout[i].streams) = 1
        /\ hout[i].streams[1].status =
              (IF ManifestMissing(hin) \/ hin.FAIL_CLASS # <<"NONE">> THEN "blocked"
               ELSE IF hin.APPROVAL = <<"requested">> THEN "pending"
               ELSE "running")

C5_Witness ==
    /\ hout # <<>>
    /\ hin.APPROVAL = <<"requested">>
    /\ hin.FAIL_CLASS = <<"NONE">>
    /\ ManifestMissing(hin)
    /\ hout[1].streams[1].status = "blocked"

\* This step is a completed build_snapshot
BuildCompleted == Len(hout') = Len(hout) + 1

\* This step is a completed write_snapshot
WriteSnapshotCompleted ==
    \/ snapshotFile' # snapshotFile
    \/ \E s \in DOMAIN events' :
          /\ Len(events'[s]) = Len(EventsOf(events, s)) + 1
          /\ events'[s][Len(events'[s])].type = <<"SNAPSHOT_BUILT">>

(* C6: build_snapshot is deterministic and read-only: a call changes no    *)
(* packet file, event log or index, consecutive calls with no write in     *)
(* between return equal snapshots, and the snapshot write_snapshot puts on *)
(* disk is the one build_snapshot returns on the state just before it.     *)
C6_BuildStep ==
    /\ BuildCompleted =>
          /\ UNCHANGED <<streams, events, indexFile, artifacts, snapshotFile>>
          /\ \A i \in 1..Len(hout) : hout[i] = hout'[Len(hout')]
    /\ WriteSnapshotCompleted =>
          /\ snapshotFile'.exists
          /\ build_snapshot(indexFile, streams, events, artifacts).ok
          /\ json_loads(snapshotFile'.text) =
                build_snapshot(indexFile, streams, events, artifacts).snapshot

C6_Deterministic == [][C6_BuildStep]_vars

C6_Witness ==
    /\ Len(hout) = 2
    /\ Len(hout[2].streams) = 2
    /\ snapshotFile.exists
    /\ json_loads(snapshotFile.text).streams # <<>>
    /\ json_loads(snapshotFile.text) # hout[2]
    /\ clock = MaxClock

\* The name is six digits, a dot, something, and .atp
SixDigitPacketName(name) ==
    /\ Len(name) >= 10
    /\ \A i \in 1..6 : name[i] \in DigitSet
    /\ name[7] = "."
    /\ SubSeq(name, Len(name) - 1, Len(name)) = <<".", "atp">>

\* The files of a directory of streams/ that match the packet filename pattern
Matching(tree, s) ==
    IF tree[s] = PlainFile THEN {}
    ELSE {n \in DOMAIN tree[s] : tree[s][n] # DirEntry /\ SixDigitPacketName(n)}

\* What the claim says rebuild_index returns for the tree
IndexAsClaimed(index, tree) ==
    /\ DOMAIN index.streams = {s \in DOMAIN tree : Matching(tree, s) # {}}
    /\ \A s \in DOMAIN index.streams :
          LET files == index.streams[s].packet_files
          IN  /\ {files[i] : i \in 1..Len(files)} = Matching(tree, s)
              /\ Len(files) = Cardinality(Matching(tree, s))
              /\ \A i \in 1..Len(files) : \A j \in (i + 1)..Len(files) : LexLess(files[i], files[j])
              /\ \A n \in Matching(tree, s) :
                    IntOf(SubSeq(n, 1, 6)) <= index.streams[s].latest_seq
              /\ \E n \in Matching(tree, s) :
                    IntOf(SubSeq(n, 1, 6)) = index.streams[s].latest_seq

\* A step that adds a stream directory and touches no other
StreamAdded ==
    /\ DOMAIN streams' # DOMAIN streams
    /\ \A s \in DOMAIN streams : s \in DOMAIN streams' /\ streams'[s] = streams[s]

C7_IndexStep ==
    StreamAdded =>
        \A s \in DOMAIN rebuild_index(streams).streams :
            /\ s \in DOMAIN rebuild_index(streams').streams
            /\ rebuild_index(streams').streams[s] = rebuild_index(streams).streams[s]

\* Every rebuild_index result since the tree last changed is as claimed
C7_IndexResults == \A i \in 1..Len(hout) : IndexAsClaimed(hout[i], streams) /\ hout[i] = hout[1]

(* C7: rebuild_index returns, for every subdirectory of streams/ with at   *)
(* least one file matching the six-digit packet filename pattern, exactly  *)
(* latest_seq = the maximum sequence and packet_files = the sorted         *)
(* matching names, and omits the other directories; repeated calls over    *)
(* an unchanged tree are equal whatever index.json holds, and adding an    *)
(* unrelated stream leaves every existing entry unchanged.                 *)
C7_RebuildIndex == [](C7_IndexResults) /\ [][C7_IndexStep]_vars

C7_Witness ==
    /\ Len(hout) = 2
    /\ indexFile = StaleIndex
    /\ IndexStreamA \in DOMAIN hout[2].streams
    /\ IndexStreamB \in DOMAIN streams
    /\ IndexStreamB \notin DOMAIN hout[2].streams
    /\ {NameTwo, NameTwoReview, NameDir, NameNoMiddle, NameEvents} \subseteq DOMAIN streams[IndexStreamA]
    /\ NameOne \notin DOMAIN streams[IndexStreamA]

(* C8: round trip: for every packet dict p that validate_packet accepts,   *)
(* parse_packet_text(render_packet(p)) equals p in every header field,     *)
(* the goal, the list sections, artifacts.manifests and the confidence.    *)
C8_RoundTrip == hout # <<>> => hout[1].ok /\ PacketEq(hout[1].p, hin)

\* The packet files of stream s that carry the sequence number k
FilesWithSeq(s, k) == {n \in PacketNames(streams[s]) : SeqOfName(n) = k}

\* Two completed calls that returned the same sequence number on one stream
SameSequence(a, b) ==
    /\ a.info.stream_id = b.info.stream_id
    /\ a.info.seq = b.info.seq

(* C9: two write_packet calls interleaved on one stream can both read the  *)
(* same next sequence k and both return seq = k: with different modes the  *)
(* stream then holds two packet files with sequence k and the same ID,     *)
(* with the same mode it holds one, the one file overwritten.              *)
C9_SameSequence ==
    \A i \in 1..Len(hout) : \A j \in (i + 1)..Len(hout) :
        SameSequence(hout[i], hout[j]) =>
            LET s == hout[i].info.stream_id
                k == hout[i].info.seq
            IN  /\ FilesWithSeq(s, k) = {hout[i].info.path, hout[j].info.path}
                /\ IF hout[i].mode # hout[j].mode
                   THEN /\ Cardinality(FilesWithSeq(s, k)) = 2
                        /\ PacketAt(s, hout[i].info.path).p.ID = s \o <<"/">> \o Pad6(k)
                        /\ PacketAt(s, hout[j].info.path).p.ID = s \o <<"/">> \o Pad6(k)
                   ELSE Cardinality(FilesWithSeq(s, k)) = 1

C9_Witness ==
    /\ Len(hout) = 4
    /\ SameSequence(hout[1], hout[2])
    /\ hout[1].mode # hout[2].mode
    /\ SameSequence(hout[3], hout[4])
    /\ hout[3].mode = hout[4].mode
    /\ \A w \in Writers : proc[w].pc = "idle"

(* C10: when callers keep to one writer per stream and writers of          *)
(* different streams run at the same time, then once every write_packet    *)
(* and approve_stream call has completed index.json equals rebuild_index   *)
(* of the tree on disk.                                                    *)
C10_IndexComplete ==
    (hout # <<>> /\ \A w \in Writers : proc[w].pc = "idle") =>
        /\ indexFile.exists
        /\ indexFile.data = rebuild_index(streams)

\* This step is a build_snapshot that returned a snapshot
SnapshotReturned ==
    /\ Len(hout') = Len(hout) + 1
    /\ "schema_version" \in DOMAIN hout'[Len(hout')]

\* The summary reports the stream as its packet files on disk are
SummaryAsOnDisk(summary, dir, arts) ==
    LET files == list_packet_files(dir)
        latest == parse_packet_text(dir[files[Len(files)]]).p
    IN  /\ summary.packet_files = files
        /\ summary.latest_seq = SeqOfName(files[Len(files)])
        /\ summary.latest_packet_id = latest.ID
        /\ summary.status = derive_status(latest, arts)

(* C11: build_snapshot re-derives from the file system: when a packet file *)
(* is on disk and index.json has not been saved again, or is missing, the  *)
(* summary of the stream still reports latest_seq, latest_packet_id,       *)
(* packet_files and status as the packet files on disk are.                *)
C11_Rederives ==
    [][SnapshotReturned =>
          \A s \in {x \in DOMAIN streams : PacketNames(streams[x]) # {}} :
              \E k \in 1..Len(hout'[Len(hout')].streams) :
                  /\ hout'[Len(hout')].streams[k].id = s
                  /\ SummaryAsOnDisk(hout'[Len(hout')].streams[k], streams[s], artifacts)]_vars

\* Every packet file index.json lists is on disk
IndexLags ==
    \A s \in DOMAIN load_index(indexFile).streams :
        \A i \in 1..Len(load_index(indexFile).streams[s].packet_files) :
            load_index(indexFile).streams[s].packet_files[i] \in PacketNames(DirOf(streams, s))

\* This step is the index command with --write: rebuild_index, then save_index
IndexWriteCompleted ==
    /\ indexFile' # indexFile
    /\ UNCHANGED <<streams, proc, hout>>

(* C17: a write_packet or approve_stream that is interrupted after any of  *)
(* its steps leaves an index.json that can only lag: every packet file it  *)
(* lists is on disk, and one rebuild_index followed by save_index makes it *)
(* list exactly the packet files on disk.                                  *)
C17_IndexOnlyLags ==
    /\ [](IndexLags)
    /\ [][IndexWriteCompleted => IndexAsClaimed(indexFile'.data, streams')]_vars

\* No call ever returned, a call was interrupted after it wrote its packet,
\* and the index command has brought index.json up to the two files on disk
C17_Witness ==
    /\ hout = <<>>
    /\ \A w \in Writers : proc[w].pc = "idle"
    /\ <<"s1">> \in DOMAIN streams
    /\ Cardinality(PacketNames(streams[<<"s1">>])) = 2
    /\ indexFile.exists
    /\ <<"s1">> \in DOMAIN indexFile.data.streams
    /\ Len(indexFile.data.streams[<<"s1">>].packet_files) = 2

\* The event log of every stream starts with what it held before the step
EventsExtended ==
    \A s \in DOMAIN events :
        /\ s \in DOMAIN events'
        /\ Len(events'[s]) >= Len(events[s])
        /\ SubSeq(events'[s], 1, Len(events[s])) = events[s]

(* C12: the event log of a stream is append-only: across write_packet,     *)
(* append_event, approve_stream, update_etag, rebuild_index,               *)
(* build_snapshot and write_snapshot, what events.jsonl held in an earlier *)
(* state is a prefix of what it holds in every later state.                *)
C12_AppendOnly == [][EventsExtended]_vars

\* The log of s1 holds a line of the event command, of approve_stream and of
\* write_snapshot
C12_Witness ==
    /\ <<"s1">> \in DOMAIN events
    /\ \A ty \in {<<"PLAN_CREATED">>, <<"APPROVAL_GRANTED">>, <<"SNAPSHOT_BUILT">>} :
          \E i \in 1..Len(events[<<"s1">>]) : events[<<"s1">>][i].type = ty

\* The lines of the header as the file holds them, without the ETAG lines
OtherHeaderLines(content) ==
    SelectSeq(Split(SplitAt(content, BlankAt(content)).header, {NL}), LAMBDA line : ~ETAG_RE(line))

\* The two contents differ in ETAG header lines only
OnlyEtagChanged(old, new) ==
    /\ OtherHeaderLines(new) = OtherHeaderLines(old)
    /\ SplitAt(new, BlankAt(new)).body = SplitAt(old, BlankAt(old)).body

(* C13: with one writer, no operation deletes a packet file or changes the *)
(* content of an existing one, except update_etag on that file, which      *)
(* changes the ETAG header line only and leaves every other header line    *)
(* and the body as they were.                                              *)
C13_PacketsImmutable ==
    [][\A s \in DOMAIN streams :
          /\ s \in DOMAIN streams'
          /\ \A n \in DOMAIN streams[s] :
                /\ n \in DOMAIN streams'[s]
                /\ \/ streams'[s][n] = streams[s][n]
                   \/ OnlyEtagChanged(streams[s][n], streams'[s][n])]_vars

\* This step is the command on the stream returning
CommandReturned(command, s) ==
    /\ Len(hout') = 1
    /\ "command" \in DOMAIN hout'[1]
    /\ hout'[1].command = command
    /\ hout'[1].stream_id = s

\* The stream directory, its files and its event log are as before the step
StreamUntouched(s) ==
    /\ (s \in DOMAIN streams') = (s \in DOMAIN streams)
    /\ DirOf(streams', s) = DirOf(streams, s)
    /\ (s \in DOMAIN events') = (s \in DOMAIN events)
    /\ EventsOf(events', s) = EventsOf(events, s)

\* The latest packet file of the stream does not parse, or does not validate
LatestInvalid(s) ==
    /\ PacketNames(DirOf(streams, s)) # {}
    /\ ~parse_packet_file(streams[s][latest_packet_file(streams[s])]).ok

C16_FailureStep ==
    \A s \in {<<"s1">>, <<"s2">>} :
        /\ (CommandReturned("event", s) /\ PacketNames(DirOf(streams, s)) = {}) =>
              (hout'[1].status = 1 /\ StreamUntouched(s))
        /\ (CommandReturned("approve", s) /\ (PacketNames(DirOf(streams, s)) = {} \/ LatestInvalid(s))) =>
              (hout'[1].status = 1 /\ StreamUntouched(s))

(* C16: failure leaves the stream untouched: append_event on a stream with *)
(* no packet files, and approve_stream on a stream whose directory is      *)
(* absent, holds no packet files, or whose latest packet fails to parse or *)
(* validate, fail with an error, and afterwards the packet files and the   *)
(* event log of the stream are as before, with no events.jsonl and no      *)
(* stream directory created.                                               *)
C16_FailureUntouched == [][C16_FailureStep]_vars

\* approve has just failed on a stream whose latest packet does not parse
C16_Witness ==
    /\ hout = ExitStatus("approve", <<"s1">>, FALSE)
    /\ LatestInvalid(<<"s1">>)
    /\ <<"s1">> \notin DOMAIN events

\* Every field the claim names is in its domain
InSchema(packet) ==
    /\ packet.MODE \in {<<"PLAN">>, <<"EXEC">>, <<"REVIEW">>}
    /\ packet.APPROVAL \in {<<"none">>, <<"requested">>, <<"granted_by_human">>}
    /\ packet.FAIL_CLASS \in {<<"NONE">>, <<"SPEC">>, <<"ENV">>, <<"TEST">>, <<"LOGIC">>,
                              <<"INTEGRATION">>, <<"DATA">>, <<"TOOLING">>}
    /\ \A list \in {packet.TOOLS, packet.now, packet.next, packet.risks, packet.accept,
                    packet.questions, packet.artifacts.manifests} :
          \A i \in 1..Len(list) : list[i] # NotAString
    /\ packet.confidence.kind = "float" => (packet.confidence.v >= 0 /\ packet.confidence.v <= 10)
    /\ packet.ATP = <<"ATP/0.1">>

(* C14: validate_packet rejects every packet whose MODE, APPROVAL or       *)
(* FAIL_CLASS is outside its enum, whose list fields hold a non-string,    *)
(* whose confidence is outside [0,1] or whose ATP is not ATP/0.1; so no    *)
(* packet that validate_packet or parse_packet_file accepts, and no packet *)
(* file that write_packet wrote, is such a packet.                         *)
C14_RejectsOutOfSchema ==
    /\ \A i \in 1..Len(hout) : hout[i].accepted => InSchema(hout[i].packet)
    /\ \A s \in DOMAIN streams : \A n \in DOMAIN streams[s] :
          InSchema(parse_packet_text(streams[s][n]).p)

\* The character at position i as written, or as one pass of percent-decoding reads it
CharAt(part, i, decoded) ==
    IF ~decoded THEN part[i]
    ELSE IF part[i] = "%2e" THEN "."
    ELSE IF part[i] = "%2f" THEN "/"
    ELSE IF part[i] = "%5c" THEN "\\"
    ELSE IF part[i] = "%25" THEN "%"
    ELSE part[i]

IsSeparator(c) == c = "/" \/ c = "\\"

\* The part is an absolute path, or two dots stand alone between separators
AbsoluteOrDotDot(part, decoded) ==
    \/ part # <<>> /\ IsSeparator(CharAt(part, 1, decoded))
    \/ \E i \in 1..(Len(part) - 1) :
          /\ CharAt(part, i, decoded) = "."
          /\ CharAt(part, i + 1, decoded) = "."
          /\ i = 1 \/ IsSeparator(CharAt(part, i - 1, decoded))
          /\ i + 1 = Len(part) \/ IsSeparator(CharAt(part, i + 2, decoded))

(* C15: safe_resolve(base, part) rejects with status 400 every part that,  *)
(* raw or percent-decoded, is an absolute path or holds a '..' segment     *)
(* with / or \ as separator, and a path it returns is base itself or lies  *)
(* beneath base.                                                           *)
C15_SafeResolve ==
    hout # <<>> =>
        /\ (AbsoluteOrDotDot(hin, FALSE) \/ AbsoluteOrDotDot(hin, TRUE)) => hout[1].status = 400
        /\ hout[1].status = 200 =>
              (Len(hout[1].path) >= Len(BaseDir) /\ SubSeq(hout[1].path, 1, Len(BaseDir)) = BaseDir)

\* The percent-encoded traversal of test_path_traversal_blocked has been rejected
C15_Witness ==
    /\ hin = <<"%2e", "%2e", "%2f", "a">>
    /\ hout # <<>>
    /\ hout[1].status = 400

\* The (relative path, bytes) pairs of an input
RelativeContent(input) == IF input.is_file THEN (input.name :> input.bytes) ELSE input.files

(* C18: the hash bundle_artifact computes depends only on the set of       *)
(* (relative path, bytes) pairs of the input: two inputs with the same     *)
(* relative paths and bytes get the same artifacts/<hash>/ directory,      *)
(* whatever the traversal order and wherever the input lives.              *)
C18_HashByContent ==
    \A i, j \in 1..Len(hout) :
        RelativeContent(hout[i].input) = RelativeContent(hout[j].input) =>
            hout[i].digest = hout[j].digest

(* C19: after bundle_artifact the returned path exists, manifest.json in   *)
(* artifacts/<hash>/ records the hash of its directory name with the kind  *)
(* and stream given, and every file the manifest lists is there at the     *)
(* same relative path with the bytes of the source file, also when the     *)
(* input is, or holds, a file named manifest.json.                         *)
C19_BundleStored ==
    \A i \in 1..Len(hout) :
        /\ ArtifactPath(hout[i].pointer[1], hout[i].pointer[2]) \in artifacts
        /\ hout[i].pointer[2] \in DOMAIN hout[i].dir
        /\ hout[i].dir[ManifestName].json
        /\ hout[i].dir[ManifestName].hash = hout[i].digest
        /\ hout[i].dir[ManifestName].kind = hout[i].kind
        /\ hout[i].dir[ManifestName].stream = hout[i].stream
        /\ \A k \in 1..Len(hout[i].dir[ManifestName].files) :
              LET rel == hout[i].dir[ManifestName].files[k]
              IN  /\ rel \in DOMAIN hout[i].dir
                  /\ hout[i].dir[rel] = FileContent(RelativeContent(hout[i].input)[rel])

\* The stream id is one generate_stream_id made, not one a caller supplied
Generated(stream) == stream # <<>> /\ stream[1] = "stream-"

(* C20: write_packet called without a stream_id starts a fresh stream:     *)
(* every such call returns seq 1 and writes 000001.<suffix>.atp with       *)
(* PARENT null into a stream directory that held no packet before, also    *)
(* for two such calls within one clock second.                             *)
C20_FreshStream ==
    \A s \in DOMAIN calls :
        Generated(s) =>
            \A i \in 1..Len(calls[s]) :
                calls[s][i].op = "write_packet" =>
                    /\ calls[s][i].seq = 1
                    /\ SubSeq(calls[s][i].path, 1, 6) = <<"0", "0", "0", "0", "0", "1">>
                    /\ PacketAt(s, calls[s][i].path).ok
                    /\ PacketAt(s, calls[s][i].path).p.PARENT = None

\* The health block counts the blocked summaries of the snapshot
HealthAsCounted(snapshot) ==
    LET blocked == {k \in 1..Len(snapshot.streams) : snapshot.streams[k].status = "blocked"}
    IN  /\ snapshot.health.active_alerts_count = Cardinality(blocked)
        /\ snapshot.health.status = (IF Cardinality(blocked) >= 1 THEN "Warning" ELSE "Nominal")

(* C21: in every snapshot, returned by build_snapshot or written by        *)
(* write_snapshot, health.active_alerts_count is the number of stream      *)
(* summaries whose status is blocked, and health.status is Warning iff     *)
(* that number is at least 1 and Nominal otherwise, also with no streams.  *)
C21_Health ==
    /\ \A i \in 1..Len(hout) : HealthAsCounted(hout[i])
    /\ snapshotFile.exists => HealthAsCounted(json_loads(snapshotFile.text))

C21_Witness ==
    /\ hout # <<>>
    /\ Len(hout[1].streams) = 2
    /\ hout[1].streams[1].status = "blocked"
    /\ hout[1].streams[2].status = "pending"
    /\ hout[1].health.active_alerts_count = 1
    /\ hout[1].health.status = "Warning"
    /\ snapshotFile.exists

\* The PARENT of the packet each listed file holds
ParentsOf(dir, files) == [i \in 1..Len(files) |-> parse_packet_text(dir[files[i]]).p.PARENT]

\* Some packet ID of the stream is the PARENT of more than one listed packet
Branched(dir, files) ==
    \E i, j \in 1..Len(files) :
        /\ i # j
        /\ ParentsOf(dir, files)[i] # None
        /\ ParentsOf(dir, files)[i] = ParentsOf(dir, files)[j]
        /\ \E k \in 1..Len(files) : parse_packet_text(dir[files[k]]).p.ID = ParentsOf(dir, files)[i]

(* C22: for each stream, build_snapshot sets has_fork to true exactly when *)
(* some packet ID of the stream is the PARENT of more than one packet of   *)
(* the stream, wherever in the chain the branch is, and to false otherwise.*)
C22_HasFork ==
    \A i \in 1..Len(hout) :
        \A k \in 1..Len(hout[i].streams) :
            hout[i].streams[k].has_fork =
                Branched(streams[hout[i].streams[k].id], hout[i].streams[k].packet_files)

\* This step is an append_event that wrote its line
EventAppended ==
    /\ hin' # <<>>
    /\ hout' = ExitStatus("event", hin'.stream_id, TRUE)
    /\ hin'.stream_id \in DOMAIN events'
    /\ Len(events'[hin'.stream_id]) = Len(EventsOf(events, hin'.stream_id)) + 1

\* The line has the id, type, summary and ts the arguments and the disk give
LineAsGiven(line, args, dir, now) ==
    /\ line.id = PacketId(args.stream_id, latest_sequence_for_stream(dir))
    /\ line.type = args.type
    /\ line.summary = args.summary
    /\ line.ts = (IF args.ts # <<>> THEN args.ts ELSE now)

(* C23: every line append_event appends has the id <stream>/<latest        *)
(* sequence on disk at append time, six digits>, the type and summary      *)
(* given and the ts override or the current time, for every extra map,     *)
(* also one that holds the keys id, ts, type, summary or packet_id.        *)
C23_EventLine ==
    [][EventAppended =>
          LineAsGiven(events'[hin'.stream_id][Len(events'[hin'.stream_id])], hin',
                      streams[hin'.stream_id], isoformat(clock))]_vars

\* The last non-blank line of the log is an event whose ts is a timestamp
WellFormedLast(lines) ==
    /\ NonBlankLines(lines) # <<>>
    /\ LET last == NonBlankLines(lines)[Len(NonBlankLines(lines))]
       IN  /\ "ts" \in DOMAIN last
           /\ last.ts # NotAString
           /\ parse_timestamp(last.ts).ok

(* C24: build_snapshot never fails because of a stream's events.jsonl:     *)
(* when the file is absent, empty, or its last non-blank line is invalid   *)
(* JSON, a JSON value that is no object, or an object whose ts is missing, *)
(* not a string or no timestamp, the stream is still summarized, with      *)
(* last_event_ts null.                                                     *)
C24_EventsTolerated ==
    \A i \in 1..Len(hout) :
        /\ hout[i].returned
        /\ Len(hout[i].streams) = 1
        /\ ~WellFormedLast(EventsOf(events, SampleStream)) => hout[i].streams[1].last_event_ts = None

\* The packet_id of every APPROVAL_GRANTED event is the ID of a packet file on disk
ApprovalEventsNamePackets(tree, ev) ==
    \A s \in DOMAIN ev :
        \A i \in 1..Len(ev[s]) :
            ev[s][i].type = <<"APPROVAL_GRANTED">> =>
                /\ "packet_id" \in DOMAIN ev[s][i]
                /\ \E n \in PacketNames(DirOf(tree, s)) :
                      /\ parse_packet_text(tree[s][n]).ok
                      /\ parse_packet_text(tree[s][n]).p.ID = ev[s][i].packet_id

\* Every packet file the index lists is a file of the tree
IndexedFilesWritten(idx, tree) ==
    idx.exists =>
        \A s \in DOMAIN idx.data.streams :
            \A i \in 1..Len(idx.data.streams[s].packet_files) :
                idx.data.streams[s].packet_files[i] \in DOMAIN DirOf(tree, s)

\* A step that appends an event or stores an index finds the packet files it
\* names already written; a write_packet call appends no event
C25_OrderStep ==
    /\ events' # events => ApprovalEventsNamePackets(streams, events')
    /\ indexFile' # indexFile => IndexedFilesWritten(indexFile', streams)
    /\ \A w \in Writers :
          (proc[w].op = "write_packet" /\ proc[w].pc # "idle") => events' = events

(* C25: approve_stream writes its packet file, then appends the event,     *)
(* then rebuilds and stores the index, and write_packet writes its packet  *)
(* file before it rebuilds and stores the index.  In every reachable       *)
(* state, also after an interruption between two steps, every              *)
(* APPROVAL_GRANTED event's packet_id names a packet file on disk, and     *)
(* every packet file index.json lists was written before that index.       *)
C25_WriteOrder ==
    /\ [](ApprovalEventsNamePackets(streams, events) /\ IndexedFilesWritten(indexFile, streams))
    /\ [][C25_OrderStep]_vars

\* An approve_stream was interrupted after its event: the event names the
\* review packet on disk, which the stored index does not list yet
C25_Witness ==
    /\ \A w \in Writers : proc[w].pc = "idle"
    /\ <<"s1">> \in DOMAIN events
    /\ \E i \in 1..Len(events[<<"s1">>]) :
          /\ events[<<"s1">>][i].type = <<"APPROVAL_GRANTED">>
          /\ events[<<"s1">>][i].packet_id = PacketId(<<"s1">>, 2)
    /\ PacketFileName(2, "review") \in DOMAIN streams[<<"s1">>]
    /\ indexFile.exists
    /\ <<"s1">> \in DOMAIN indexFile.data.streams
    /\ Len(indexFile.data.streams[<<"s1">>].packet_files) = 1

(* C25 as stated: write_packet too appends an event after it wrote its     *)
(* packet file and before it stores the index, so that once a write_packet *)
(* call has returned, the stream's event log holds a line whose id is the  *)
(* packet the call wrote.                                                  *)
C25_WritePacketAppendsEvent ==
    \A i \in 1..Len(hout) :
        ("info" \in DOMAIN hout[i] /\ hout[i].info.op = "write_packet") =>
            \E j \in 1..Len(EventsOf(events, hout[i].info.stream_id)) :
                events[hout[i].info.stream_id][j].id = PacketId(hout[i].info.stream_id, hout[i].info.seq)

\* The latest packet file of the stream parses and validates
LatestValid(tree, s) ==
    /\ s \in DOMAIN tree
    /\ PacketNames(tree[s]) # {}
    /\ parse_packet_file(tree[s][latest_packet_file(tree[s])]).ok

\* This step is an approve command on stream s that returned
ApproveCalled(s) ==
    /\ \E ok \in BOOLEAN : hout' = ExitStatus("approve", s, ok)
    /\ hout' # hout \/ streams' # streams

\* This step is a write_packet on stream s that returned
WriteCalled(s) ==
    /\ s \in DOMAIN calls'
    /\ Len(calls'[s]) = Len(CallsOf(s)) + 1
    /\ calls'[s][Len(calls'[s])].op = "write_packet"

\* The step added one packet file, a REVIEW/granted_by_human packet with the
\* next sequence number
ApprovalAdded(s) ==
    LET new == PacketFileName(next_sequence(streams[s]), "review")
    IN  /\ DOMAIN streams'[s] = DOMAIN streams[s] \cup {new}
        /\ new \notin DOMAIN streams[s]
        /\ parse_packet_file(streams'[s][new]).ok
        /\ parse_packet_file(streams'[s][new]).p.MODE = <<"REVIEW">>
        /\ parse_packet_file(streams'[s][new]).p.APPROVAL = <<"granted_by_human">>
        /\ latest_packet_file(streams'[s]) = new

\* The packet write_packet added follows the latest packet there was
ChainContinued(s) ==
    LET latest == latest_packet_file(streams[s])
        new == latest_packet_file(streams'[s])
    IN  /\ new \notin DOMAIN streams[s]
        /\ SeqOfName(new) = SeqOfName(latest) + 1
        /\ parse_packet_file(streams'[s][new]).p.PARENT = parse_packet_file(streams[s][latest]).p.ID

C26_ApproveStep ==
    \A s \in DOMAIN streams :
        /\ (ApproveCalled(s) /\ LatestValid(streams, s)) =>
              /\ hout' = ExitStatus("approve", s, TRUE)
              /\ ApprovalAdded(s)
        /\ (WriteCalled(s) /\ LatestValid(streams, s)
              /\ parse_packet_file(streams[s][latest_packet_file(streams[s])]).p.APPROVAL = <<"granted_by_human">>
              /\ parse_packet_file(streams[s][latest_packet_file(streams[s])]).p.MODE = <<"REVIEW">>) =>
              ChainContinued(s)

(* C26: approve_stream succeeds whenever the stream's latest packet is     *)
(* valid, for every MODE and every APPROVAL of that packet, also when it   *)
(* is itself REVIEW/granted_by_human: each call adds one further           *)
(* REVIEW/granted_by_human packet, and a later write_packet continues the  *)
(* chain from it, with the next sequence and PARENT = its ID.              *)
C26_ApproveAlways == [][C26_ApproveStep]_vars

\* A PLAN packet marked granted_by_human by hand, approved twice, then new
C26_Witness ==
    /\ hin.MODE = <<"PLAN">>
    /\ hin.APPROVAL = <<"granted_by_human">>
    /\ <<"s1">> \in DOMAIN calls
    /\ Len(calls[<<"s1">>]) = 3
    /\ calls[<<"s1">>][1].op = "approve_stream"
    /\ calls[<<"s1">>][2].op = "approve_stream"
    /\ calls[<<"s1">>][3].op = "write_packet"
    /\ calls[<<"s1">>][3].seq = 4
    /\ PacketAt(<<"s1">>, calls[<<"s1">>][3].path).p.PARENT = PacketId(<<"s1">>, 3)

\* The latest packet of the stream is the one the last call wrote, a write_packet
LatestFromWritePacket(s) ==
    /\ s \in DOMAIN calls
    /\ calls[s][Len(calls[s])].op = "write_packet"
    /\ calls[s][Len(calls[s])].path = latest_packet_file(streams[s])

(* C27: for every mode, the packet write_packet writes lists the           *)
(* placeholder manifest path state/artifacts/<hash>/manifest.json; so, as  *)
(* long as no file exists at that path, build_snapshot reports a stream    *)
(* whose latest packet came from write_packet as blocked, never pending    *)
(* (also for EXEC) and never running.                                      *)
C27_PlaceholderBlocks ==
    /\ \A s \in DOMAIN calls : \A i \in 1..Len(calls[s]) :
          calls[s][i].op = "write_packet" =>
              PacketAt(s, calls[s][i].path).p.artifacts.manifests = <<PlaceholderManifest>>
    /\ \A i \in 1..Len(hout) : \A k \in 1..Len(hout[i].streams) :
          (LatestFromWritePacket(hout[i].streams[k].id) /\ PlaceholderManifest \notin artifacts) =>
              hout[i].streams[k].status = "blocked"

\* The latest packet is an EXEC packet of write_packet, its approval
\* requested, and the snapshot reports the stream blocked
C27_Witness ==
    /\ hout # <<>>
    /\ PlaceholderManifest \notin artifacts
    /\ \E k \in 1..Len(hout[1].streams) :
          /\ LatestFromWritePacket(hout[1].streams[k].id)
          /\ hout[1].streams[k].approval_state = <<"requested">>
          /\ hout[1].streams[k].fail_class = <<"NONE">>
          /\ hout[1].streams[k].status = "blocked"

\* The packet approve_stream approved: the one before the latest
ApprovedPacket(dir) ==
    parse_packet_file(dir[list_packet_files(dir)[Len(list_packet_files(dir)) - 1]]).p

\* The status the claim gives a stream right after approve_stream
StatusAfterApproval(dir, arts) ==
    IF \E i \in 1..Len(ApprovedPacket(dir).artifacts.manifests) :
           ApprovedPacket(dir).artifacts.manifests[i] \notin arts
    THEN "blocked"
    ELSE "running"

(* C28: immediately after a completed approve_stream the stream's derived  *)
(* status is never pending: it is blocked iff some manifest path carried   *)
(* forward from the approved packet does not exist, and running otherwise; *)
(* a block caused by FAIL_CLASS is cleared, one caused by a missing        *)
(* manifest is not.                                                        *)
C28_StatusAfterApprove ==
    (Len(hout) >= 2 /\ hout[1] = ExitStatus("approve", SampleStream, TRUE)[1]) =>
        \A i \in 2..Len(hout) :
            /\ hout[i].returned
            /\ hout[i].streams[1].status = StatusAfterApproval(streams[SampleStream], artifacts)

\* int() of the digits a file name starts with
LeadingSeq(name) ==
    IntOf(SubSeq(name, 1, Min({i \in 1..Len(name) : name[i] \notin DigitSet}) - 1))

\* The files of a stream directory named as packets are
AtpNames(dir) == {n \in DOMAIN dir : n[Len(n)] = "atp"}

\* A write_packet or approve_stream call on stream s1 returned its PacketInfo
PacketReturned == Len(CallsOf(<<"s1">>)') = Len(CallsOf(<<"s1">>)) + 1

ReturnedInfo == calls'[<<"s1">>][Len(calls'[<<"s1">>])]

C29_NewFileStep ==
    PacketReturned =>
        /\ ReturnedInfo.path \notin DOMAIN streams[<<"s1">>]
        /\ \A n \in AtpNames(streams[<<"s1">>]) : ReturnedInfo.seq > LeadingSeq(n)

(* C29: under single-writer use every write_packet and approve_stream call *)
(* that returns creates a packet file that did not exist before, and the   *)
(* sequence number it took from next_sequence is strictly greater than the *)
(* number of every packet file already written, also once the stream holds *)
(* the packet numbered 999999.                                             *)
C29_NeverOverwrites == [][C29_NewFileStep]_vars

\* The snapshot write_snapshot built and returned, on the state before the call
SnapshotBefore == build_snapshot(indexFile, streams, events, artifacts)

\* The snapshot build_snapshot, or a second write_snapshot, returns right after
SnapshotAfter == build_snapshot(indexFile', streams', events', artifacts')

\* The snapshot a third consecutive write_snapshot returns
SnapshotThird ==
    build_snapshot(indexFile', streams',
                   write_snapshot(indexFile', streams', events', artifacts').events, artifacts')

SnapshotIds(snapshot) == {snapshot.streams[k].id : k \in 1..Len(snapshot.streams)}

\* One SNAPSHOT_BUILT line with ts = as_of is appended to every stream of the
\* snapshot, and to no other
OneEventPerStream(snapshot) ==
    /\ \A s \in SnapshotIds(snapshot) :
          /\ s \in DOMAIN events'
          /\ Len(events'[s]) = Len(EventsOf(events, s)) + 1
          /\ SubSeq(events'[s], 1, Len(events'[s]) - 1) = EventsOf(events, s)
          /\ events'[s][Len(events'[s])].type = <<"SNAPSHOT_BUILT">>
          /\ events'[s][Len(events'[s])].ts = snapshot.as_of
    /\ \A s \in DOMAIN events' \ SnapshotIds(snapshot) : events'[s] = EventsOf(events, s)

\* as_of, health and every stream's status are those of the snapshot written
SameReading(before, after) ==
    /\ after.as_of = before.as_of
    /\ after.health = before.health
    /\ Len(after.streams) = Len(before.streams)
    /\ \A k \in 1..Len(after.streams) :
          /\ after.streams[k].id = before.streams[k].id
          /\ after.streams[k].status = before.streams[k].status

\* What the claim states but for the comparison of last_event_ts with as_of
SnapshotSettles(before, after, third) ==
    /\ before.ok /\ after.ok /\ third.ok
    /\ OneEventPerStream(before.snapshot)
    /\ SameReading(before.snapshot, after.snapshot)
    /\ third.snapshot = after.snapshot

\* Two timestamp texts that parse_timestamp reads as the same datetime
SameInstant(a, b) == parse_timestamp(a).ok /\ parse_timestamp(a) = parse_timestamp(b)

\* Every last_event_ts is the isoformat() of the datetime that as_of names
LastEventAtAsOf(snapshot) ==
    \A k \in 1..Len(snapshot.streams) :
        /\ SameInstant(snapshot.streams[k].last_event_ts, snapshot.as_of)
        /\ snapshot.streams[k].last_event_ts = dt_isoformat(parse_timestamp(snapshot.as_of))

\* Every last_event_ts is the text of as_of
LastEventTextAsOf(snapshot) ==
    \A k \in 1..Len(snapshot.streams) : snapshot.streams[k].last_event_ts = snapshot.as_of

C30_InstantStep ==
    WriteSnapshotCompleted =>
        LET after == SnapshotAfter
        IN  SnapshotSettles(SnapshotBefore, after, SnapshotThird) /\ LastEventAtAsOf(after.snapshot)

C30_TextStep ==
    WriteSnapshotCompleted =>
        LET after == SnapshotAfter
        IN  SnapshotSettles(SnapshotBefore, after, SnapshotThird) /\ LastEventTextAsOf(after.snapshot)

(* C30: write_snapshot appends exactly one SNAPSHOT_BUILT event, with ts    *)
(* equal to the snapshot's as_of, to every stream of the snapshot; a       *)
(* build_snapshot right after it yields the same as_of, health and stream  *)
(* statuses, every last_event_ts then names the instant of as_of (as_of    *)
(* writes the UTC offset as Z, last_event_ts as +00:00), and the snapshots *)
(* of the second and the third consecutive write_snapshot are identical.   *)
C30_SnapshotSettles == [][C30_InstantStep]_vars

\* Two streams have each received the events of two consecutive write_snapshot calls
C30_Witness ==
    /\ snapshotFile.exists
    /\ Cardinality({s \in DOMAIN events :
                       /\ Len(events[s]) = 2
                       /\ events[s][1].type = <<"SNAPSHOT_BUILT">>
                       /\ events[s][2].type = <<"SNAPSHOT_BUILT">>}) >= 2

\* C30 as stated: after write_snapshot every stream's last_event_ts is equal
\* to as_of itself
C30_LastEventTsIsAsOf == [][C30_TextStep]_vars

====
